---- MODULE Spec2Model ----
(***************************************************************************)
(* wechat-view: the daily summariser (internal/summarize/summary.go), the   *)
(* REST API (internal/api/server.go) and the report command (cmd/report).  *)
(*                                                                         *)
(* The server answers one request per step (Serve, then Return); the       *)
(* report command runs once per step (RunReport) while the data of the     *)
(* chatlog service change (ServiceChanges).                                *)
(*                                                                         *)
(* BuildSummary is one pass over the day's messages followed by a          *)
(* post-pass.  The model runs the pass one message per step                *)
(* (ProcessMessage), then the post-pass (Finish), then a second call of    *)
(* BuildSummary on the same input (BuildAgain).                            *)
(*                                                                         *)
(* Representation.                                                         *)
(*  - A Go string is the sequence of its Unicode code points, so           *)
(*    <<104,105>> is "hi".  Byte-wise comparison and substring search on   *)
(*    valid UTF-8 agree with the same operations on code points.           *)
(*  - An int64 timestamp v is the pair <<k, r>> with v = 1000*k + r and    *)
(*    0 <= r < 1000, so that the millisecond threshold 10^12 and the       *)
(*    division by 1000 stay within the model checker's integers.           *)
(*  - A time.Time is [zero, sec, off]: the zero Time, or the instant sec   *)
(*    (Unix seconds) carried in a zone off seconds east of UTC.            *)
(*  - float64 minutes are kept exact: a latency is a whole number of       *)
(*    seconds, roundTo(v, 1) is a number of tenths, roundTo(v, 2) a number *)
(*    of hundredths, a sub-score a fraction [n, d].                        *)
(***************************************************************************)
EXTENDS Integers, Sequences, FiniteSets, TLC

VARIABLES
  corpus,    \* which set of messages the day's input is drawn from
  tz,        \* the offset of time.Local, seconds east of UTC
  msgs,      \* the messages ranged over so far (the input prefix)
  loop,      \* BuildSummary's locals during the pass
  pc,        \* "loop", "done" (first call returned), "again" (second call
             \* returned), "idle" (no call of BuildSummary)
  sum,       \* the Summary the first call returned
  sum2,      \* the Summary the second call returned
  api,       \* the REST server: data directory, last request and response
  run        \* the report command: raw file, service data, last run

vars == <<corpus, tz, msgs, loop, pc, sum, sum2, api, run>>

\* The longest input the model ranges over.
MaxMsgs == 3

\* The longest input of the corpus of questions that answer one another.
MaxChain == 5

(***************************************************************************)
(* strings, unicode                                                        *)
(***************************************************************************)

Range(s) == {s[i] : i \in 1..Len(s)}

A2Z == 65..90

Lower1(c) == IF c \in A2Z THEN c + 32 ELSE c

\* strings.ToLower on the code points the inputs use (ASCII, Han, symbols).
ToLower(s) == [i \in 1..Len(s) |-> Lower1(s[i])]

\* unicode.IsSpace
IsSpace(c) ==
  \/ c \in 9..13
  \/ c \in {32, 133, 160, 5760, 8232, 8233, 8239, 8287, 12288}
  \/ c \in 8192..8202

\* unicode.Is(unicode.Han, r), on the Basic Multilingual Plane
IsHan(c) ==
  \/ c \in 19968..40959
  \/ c \in 13312..19903
  \/ c \in 63744..64217
  \/ c \in {12293, 12295}
  \/ c \in 12321..12329
  \/ c \in 12344..12347

IsAsciiAlnum(c) == c \in 48..57 \/ c \in 65..90 \/ c \in 97..122

\* unicode.IsLetter(r) || unicode.IsDigit(r) on the code points the inputs use
IsLetterOrDigit(c) == IsAsciiAlnum(c) \/ IsHan(c)

\* strings.TrimSpace
TrimSpace(s) ==
  LET keep == {i \in 1..Len(s) : ~IsSpace(s[i])}
  IN  IF keep = {} THEN <<>>
      ELSE SubSeq(s, CHOOSE i \in keep : \A j \in keep : i <= j,
                     CHOOSE i \in keep : \A j \in keep : i >= j)

\* strings.Contains
Contains(s, sub) ==
  \E i \in 0..(Len(s) - Len(sub)) : SubSeq(s, i + 1, i + Len(sub)) = sub

\* strings.HasPrefix
HasPrefix(s, p) == Len(s) >= Len(p) /\ SubSeq(s, 1, Len(p)) = p

\* strings.TrimRight(s, cutset)
TrimRight(s, cutset) ==
  LET keep == {i \in 1..Len(s) : s[i] \notin cutset}
  IN  IF keep = {} THEN <<>>
      ELSE SubSeq(s, 1, CHOOSE i \in keep : \A j \in keep : i >= j)

\* The maximal runs of s made of the code points in keep, in order.
RECURSIVE RunsFrom(_, _, _)
RunsFrom(s, keep, i) ==
  LET starts == {j \in i..Len(s) : s[j] \in keep}
  IN  IF starts = {} THEN <<>>
      ELSE LET b == CHOOSE j \in starts : \A k \in starts : j <= k
               stops == {j \in b..Len(s) : s[j] \notin keep}
               e == IF stops = {} THEN Len(s) + 1
                    ELSE CHOOSE j \in stops : \A k \in stops : j <= k
           IN  <<SubSeq(s, b, e - 1)>> \o RunsFrom(s, keep, e)

\* strings.Fields: the maximal runs of non-space code points
Fields(s) == RunsFrom(s, {c \in Range(s) : ~IsSpace(c)}, 1)

\* Go's < on strings
RECURSIVE StrLess(_, _)
StrLess(a, b) ==
  IF b = <<>> THEN FALSE
  ELSE IF a = <<>> THEN TRUE
  ELSE IF a[1] # b[1] THEN a[1] < b[1]
  ELSE StrLess(Tail(a), Tail(b))

runeLen(s) == Len(s)

(***************************************************************************)
(* the tables of summary.go, by code point                                 *)
(***************************************************************************)

stopwordEN ==
  {
   <<116,104,101>>, <<111,102>>, <<97,110,100>>, <<116,111>>, <<105,110>>, <<105,115>>,
   <<102,111,114>>, <<111,110>>, <<119,105,116,104>>, <<116,104,105,115>>, <<116,104,97,116>>,
   <<97,114,101>>, <<98,101>>, <<97,115>>, <<98,121>>, <<97,116>>, <<102,114,111,109>>,
   <<111,114>>, <<110,111,116>>, <<121,111,117>>, <<121,111,117,114>>
  }

stopwordCN ==
  {
   <<25105,20204>>, <<20320,20204>>, <<20182,20204>>, <<36825,20010>>, <<37027,20010>>,
   <<19968,20010>>, <<20197,21450>>, <<22240,20026>>, <<25152,20197>>, <<32780,19988>>,
   <<21487,20197>>, <<30340,35805>>, <<22914,26524>>, <<23601,26159>>, <<19981,26159>>,
   <<27809,26377>>, <<24212,35813>>, <<38656,35201>>, <<21487,33021>>, <<30456,20851>>,
   <<36827,34892>>, <<20851,20110>>, <<36824,26377>>, <<24050,32463>>, <<20160,20040>>,
   <<24590,20040>>, <<36825,31181>>, <<19968,20123>>, <<22823,23478>>, <<33258,24049>>,
   <<19968,19979>>, <<36824,26159>>, <<22909,30340>>, <<30340>>, <<20102>>, <<22312>>,
   <<26159>>, <<21644>>, <<19981>>, <<20063>>, <<37117>>, <<24182>>, <<24456>>, <<26356>>,
   <<21450>>, <<34987>>, <<23601>>, <<32780>>
  }

positiveLexicons ==
  <<
   <<21704,21704>>, <<91,24494,31505,93>>, <<128077>>, <<36190>>, <<24863,35874>>,
   <<32473,21147>>, <<31283>>, <<22826,22909,20102>>, <<110,105,99,101>>,
   <<103,114,101,97,116>>, <<112,101,114,102,101,99,116>>, <<29245>>, <<29275,36924>>,
   <<21152,27833>>, <<127881>>
  >>

negativeLexicons ==
  <<
   <<91,25410,33080,93>>, <<91,27882,93>>, <<91,27735,93>>, <<21741>>, <<40635,28902>>,
   <<26197>>, <<31967,31957>>, <<19981,34892>>, <<32763,36710>>, <<23849>>, <<40635,20102>>,
   <<38590,39030>>, <<98,117,103>>, <<38382,39064>>, <<63,63>>, <<65311,65311>>, <<128584>>,
   <<128557>>, <<128531>>, <<128545>>
  >>

positiveEmojiSet ==
  {
   <<24494,31505>>, <<24378>>, <<36190>>, <<79,75>>
  }

negativeEmojiSet ==
  {
   <<25410,33080>>, <<27735>>, <<27882>>, <<25235,29378>>, <<24594>>
  }

\* nameReplacer: the code points it deletes
nameReplacerCut == {160, 8194, 8195, 8197, 8201, 8202, 8203, 183, 8226, 128262, 10024, 128640}

(***************************************************************************)
(* chatlog.Message and time.Time                                           *)
(***************************************************************************)

\* A nil *Reference, a nil *Share.
NoReference == [present |-> FALSE, SenderName |-> <<>>, Content |-> <<>>]

NoShare == [present |-> FALSE, URL |-> <<>>]

\* The zero Message: every field absent.
ZeroMessage ==
  [SenderName |-> <<>>, Nickname |-> <<>>, Sender |-> <<>>, From |-> <<>>,
   Timestamp |-> <<0, 0>>, CreateTime |-> <<0, 0>>, Time |-> <<>>,
   Content |-> <<>>, Text |-> <<>>, MsgType |-> 0,
   Mentions |-> <<>>, Emojis |-> <<>>, Reference |-> NoReference,
   IsQuestion |-> FALSE, Share |-> NoShare]

\* int64 tests on <<k, r>> = 1000*k + r
TsIsZero(ts) == ts[1] = 0 /\ ts[2] = 0

TsPositive(ts) == ts[1] > 0 \/ (ts[1] = 0 /\ ts[2] > 0)

\* ts > 1_000_000_000_000
TsIsMillis(ts) == ts[1] > 1000000000 \/ (ts[1] = 1000000000 /\ ts[2] > 0)

\* The seconds of a positive ts: ts/1000 when it is in milliseconds.
TsSeconds(ts) == IF TsIsMillis(ts) THEN ts[1] ELSE 1000 * ts[1] + ts[2]

ZeroTime == [zero |-> TRUE, sec |-> 0, off |-> 0]

\* time.Unix(sec, 0).Local()
UnixLocal(sec, zone) == [zero |-> FALSE, sec |-> sec, off |-> zone]

IsZero(t) == t.zero

\* The zero Time is year 1, before every Unix instant the model reaches.
\* An After that holds of any two times.
AfterAlways(t, u) == TRUE

After(t, u) ==
  IF t.zero THEN FALSE ELSE IF u.zero THEN TRUE ELSE t.sec > u.sec

Before(t, u) ==
  IF u.zero THEN FALSE ELSE IF t.zero THEN TRUE ELSE t.sec < u.sec

\* t.Sub(u) in seconds, for two instants
SubSeconds(t, u) == t.sec - u.sec

\* t.Hour()
Hour(t) == IF t.zero THEN 0 ELSE ((t.sec + t.off) \div 3600) % 24

\* time.Parse(time.RFC3339, s) on the layouts YYYY-MM-DDTHH:MM:SS followed
\* by Z or by +HH:MM / -HH:MM, for the years 1970 to 2037; anything else
\* the model gives is a parse error.
IsDigit(c) == c \in 48..57

Num2(s, i) == (s[i] - 48) * 10 + (s[i + 1] - 48)

Num4(s, i) == Num2(s, i) * 100 + Num2(s, i + 2)

IsLeap(y) == (y % 4 = 0 /\ y % 100 # 0) \/ y % 400 = 0

DaysIn(y, m) ==
  IF m = 2 THEN (IF IsLeap(y) THEN 29 ELSE 28)
  ELSE IF m \in {4, 6, 9, 11} THEN 30 ELSE 31

\* days from 1970-01-01 to y-m-d
RECURSIVE DaysBeforeYear(_)
DaysBeforeYear(y) ==
  IF y <= 1970 THEN 0
  ELSE DaysBeforeYear(y - 1) + (IF IsLeap(y - 1) THEN 366 ELSE 365)

RECURSIVE DaysBeforeMonth(_, _)
DaysBeforeMonth(y, m) ==
  IF m <= 1 THEN 0 ELSE DaysBeforeMonth(y, m - 1) + DaysIn(y, m - 1)

ParseRFC3339(s) ==
  LET bad == [ok |-> FALSE, t |-> ZeroTime]
      digitsAt == {1, 2, 3, 4, 6, 7, 9, 10, 12, 13, 15, 16, 18, 19}
      shape ==
        /\ Len(s) \in {20, 25}
        /\ \A i \in digitsAt : IsDigit(s[i])
        /\ s[5] = 45 /\ s[8] = 45 /\ s[11] = 84 /\ s[14] = 58 /\ s[17] = 58
        /\ IF Len(s) = 20 THEN s[20] = 90
           ELSE /\ s[20] \in {43, 45}
                /\ \A i \in {21, 22, 24, 25} : IsDigit(s[i])
                /\ s[23] = 58
  IN  IF ~shape THEN bad
      ELSE
        LET y == Num4(s, 1)
            mo == Num2(s, 6)
            d == Num2(s, 9)
            h == Num2(s, 12)
            mi == Num2(s, 15)
            se == Num2(s, 18)
            off == IF Len(s) = 20 THEN 0
                   ELSE (IF s[20] = 45 THEN -1 ELSE 1)
                        * (Num2(s, 21) * 3600 + Num2(s, 24) * 60)
            inRange ==
              /\ y \in 1970..2037 /\ mo \in 1..12 /\ d \in 1..DaysIn(y, mo)
              /\ h < 24 /\ mi < 60 /\ se < 60
              /\ (Len(s) = 25 => Num2(s, 21) < 24 /\ Num2(s, 24) < 60)
        IN  IF ~inRange THEN bad
            ELSE [ok |-> TRUE,
                  t |-> [zero |-> FALSE,
                         sec |-> (DaysBeforeYear(y) + DaysBeforeMonth(y, mo) + d - 1)
                                   * 86400 + h * 3600 + mi * 60 + se - off,
                         off |-> off]]

messageTime(m, zone) ==
  IF TsPositive(m.Timestamp) THEN UnixLocal(TsSeconds(m.Timestamp), zone)
  ELSE IF TsPositive(m.CreateTime) THEN UnixLocal(TsSeconds(m.CreateTime), zone)
  ELSE IF m.Time # <<>> /\ ParseRFC3339(m.Time).ok THEN ParseRFC3339(m.Time).t
  ELSE ZeroTime

(***************************************************************************)
(* names                                                                   *)
(***************************************************************************)

RECURSIVE Filter(_, _)
Filter(s, keep) ==
  IF s = <<>> THEN <<>>
  ELSE (IF Head(s) \in keep THEN <<Head(s)>> ELSE <<>>) \o Filter(Tail(s), keep)

normalizeName(s) ==
  IF s = <<>> THEN <<>>
  ELSE LET lower == ToLower(TrimSpace(s))
           clean == Filter(lower, Range(lower) \ nameReplacerCut)
       IN  Filter(clean, {c \in Range(clean) : IsLetterOrDigit(c) \/ c = 95 \/ IsHan(c)})

senderDisplay(m) ==
  IF TrimSpace(m.SenderName) # <<>> THEN m.SenderName
  ELSE IF TrimSpace(m.Nickname) # <<>> THEN m.Nickname
  ELSE IF TrimSpace(m.Sender) # <<>> THEN m.Sender
  ELSE IF TrimSpace(m.From) # <<>> THEN m.From
  ELSE <<>>

\* uniqueStrings: the trimmed items, first of each normalized identity, in order
RECURSIVE uniqueFrom(_, _)
uniqueFrom(in, seen) ==
  IF in = <<>> THEN <<>>
  ELSE LET trim == TrimSpace(Head(in))
           key == normalizeName(trim)
       IN  IF trim = <<>> \/ key = <<>> \/ key \in seen
           THEN uniqueFrom(Tail(in), seen)
           ELSE <<trim>> \o uniqueFrom(Tail(in), seen \cup {key})

uniqueStrings(in) == uniqueFrom(in, {})

(***************************************************************************)
(* text: links, tokens, sentiment                                          *)
(***************************************************************************)

\* ",.;!?)]}"
UrlTrailCut == {44, 46, 59, 33, 63, 41, 93, 125}

\* The first occurrence of each element, in order.
RECURSIVE DedupFrom(_, _)
DedupFrom(s, seen) ==
  IF s = <<>> THEN <<>>
  ELSE IF Head(s) \in seen THEN DedupFrom(Tail(s), seen)
  ELSE <<Head(s)>> \o DedupFrom(Tail(s), seen \cup {Head(s)})

\* The scan of extractURLs: one entry per field that starts with a scheme.
RECURSIVE scanURLs(_)
scanURLs(parts) ==
  IF parts = <<>> THEN <<>>
  ELSE (IF \/ HasPrefix(Head(parts), <<104, 116, 116, 112, 58, 47, 47>>)       \* "http://"
           \/ HasPrefix(Head(parts), <<104, 116, 116, 112, 115, 58, 47, 47>>)  \* "https://"
        THEN <<TrimRight(Head(parts), UrlTrailCut)>> ELSE <<>>)
       \o scanURLs(Tail(parts))

\* extractURLs without the pass that removes duplicates.
extractURLsKeepAll(s) == scanURLs(Fields(s))

extractURLs(s) == DedupFrom(scanURLs(Fields(s)), {})

asciiTokens(s) == RunsFrom(s, {c \in Range(s) : c <= 127 /\ IsAsciiAlnum(c)}, 1)

\* The windows of n code points of seq, by offset.
Grams(seq, n) ==
  IF Len(seq) < n THEN <<>>
  ELSE [i \in 1..(Len(seq) - n + 1) |-> SubSeq(seq, i, i + n - 1)]

RECURSIVE flushAll(_)
flushAll(runs) ==
  IF runs = <<>> THEN <<>>
  ELSE (IF Len(Head(runs)) >= 2
        THEN Grams(Head(runs), 2) \o Grams(Head(runs), 3) ELSE <<>>)
       \o flushAll(Tail(runs))

chineseGrams(s) == flushAll(RunsFrom(s, {c \in Range(s) : IsHan(c)}, 1))

\* The tokens one message adds to tokenCount, in order (lines 203-215).
RECURSIVE keepAscii(_)
keepAscii(toks) ==
  IF toks = <<>> THEN <<>>
  ELSE LET tok == ToLower(Head(toks))
       IN  (IF tok \in stopwordEN \/ Len(tok) <= 2 THEN <<>> ELSE <<tok>>)
           \o keepAscii(Tail(toks))

RECURSIVE keepGrams(_)
keepGrams(toks) ==
  IF toks = <<>> THEN <<>>
  ELSE (IF Head(toks) \in stopwordCN THEN <<>> ELSE <<Head(toks)>>)
       \o keepGrams(Tail(toks))

messageTokens(text) == keepAscii(asciiTokens(text)) \o keepGrams(chineseGrams(text))

\* map[string]int: a function on the keys present.
EmptyMap == [k \in {} |-> 0]

Incr(m, k) ==
  IF k \in DOMAIN m THEN [m EXCEPT ![k] = @ + 1]
  ELSE [x \in DOMAIN m \cup {k} |-> IF x = k THEN 1 ELSE m[x]]

RECURSIVE IncrAll(_, _)
IncrAll(m, keys) ==
  IF keys = <<>> THEN m ELSE IncrAll(Incr(m, Head(keys)), Tail(keys))

\* sentimentSignals, in halves: <<2*pos, 2*neg>>
lexiconHit(text, lexicon) ==
  \E i \in 1..Len(lexicon) :
    /\ lexicon[i] # <<>>
    /\ (Contains(text, lexicon[i]) \/ Contains(ToLower(text), lexicon[i]))

RECURSIVE emojiHalves(_, _)
emojiHalves(emojis, set) ==
  IF emojis = <<>> THEN 0
  ELSE LET e == TrimSpace(Head(emojis))
       IN  (IF e # <<>> /\ e \in set THEN 1 ELSE 0) + emojiHalves(Tail(emojis), set)

sentimentSignals(text, emojis) ==
  IF text = <<>> /\ Len(emojis) = 0 THEN <<0, 0>>
  ELSE << (IF lexiconHit(text, positiveLexicons) THEN 2 ELSE 0)
            + emojiHalves(emojis, positiveEmojiSet),
          (IF lexiconHit(text, negativeLexicons) THEN 2 ELSE 0)
            + emojiHalves(emojis, negativeEmojiSet) >>

(***************************************************************************)
(* the question ledger                                                     *)
(***************************************************************************)

\* shouldTrackQuestion without the test of the message type.
shouldTrackQuestionAnyType(m, text) ==
  /\ m.IsQuestion
  /\ TrimSpace(text) # <<>>
  /\ runeLen(text) >= 2

shouldTrackQuestion(m, text) ==
  /\ m.IsQuestion
  /\ m.MsgType \in {0, 1, 49}
  /\ TrimSpace(text) # <<>>
  /\ runeLen(text) >= 2

\* matchesQuestionResponse taking the empty identity for an identity.
matchesQuestionResponseNameless(msg, q, text) ==
  LET questioner == IF q.NormalizedQuestioner = <<>>
                    THEN normalizeName(senderDisplay(q.Message))
                    ELSE q.NormalizedQuestioner
      responderName == normalizeName(senderDisplay(msg))
      refContent == TrimSpace(msg.Reference.Content)
      questionContent == TrimSpace(q.Message.Content)
  IN  /\ responderName # questioner
      /\ \/ /\ msg.Reference.present
            /\ \/ normalizeName(msg.Reference.SenderName) = questioner
               \/ /\ refContent # <<>>
                  /\ questionContent # <<>>
                  /\ \/ Contains(questionContent, refContent)
                     \/ Contains(refContent, questionContent)
         \/ \E i \in 1..Len(msg.Mentions) : normalizeName(msg.Mentions[i]) = questioner
         \/ \E i \in 1..Len(q.Mentions) : normalizeName(q.Mentions[i]) = responderName

\* matchesQuestionResponse without the comparison of responder and
\* questioner.
matchesQuestionResponseAnyone(msg, q, text) ==
  LET questioner == IF q.NormalizedQuestioner = <<>>
                    THEN normalizeName(senderDisplay(q.Message))
                    ELSE q.NormalizedQuestioner
      responderName == normalizeName(senderDisplay(msg))
      refContent == TrimSpace(msg.Reference.Content)
      questionContent == TrimSpace(q.Message.Content)
  IN  /\ questioner # <<>>
      /\ responderName # <<>>
      /\ \/ /\ msg.Reference.present
            /\ \/ normalizeName(msg.Reference.SenderName) = questioner
               \/ /\ refContent # <<>>
                  /\ questionContent # <<>>
                  /\ \/ Contains(questionContent, refContent)
                     \/ Contains(refContent, questionContent)
         \/ \E i \in 1..Len(msg.Mentions) : normalizeName(msg.Mentions[i]) = questioner
         \/ \E i \in 1..Len(q.Mentions) : normalizeName(q.Mentions[i]) = responderName

matchesQuestionResponse(msg, q, text) ==
  LET questioner == IF q.NormalizedQuestioner = <<>>
                    THEN normalizeName(senderDisplay(q.Message))
                    ELSE q.NormalizedQuestioner
      responderName == normalizeName(senderDisplay(msg))
      refContent == TrimSpace(msg.Reference.Content)
      questionContent == TrimSpace(q.Message.Content)
  IN  /\ questioner # <<>>
      /\ responderName # <<>>
      /\ responderName # questioner
      /\ \/ /\ msg.Reference.present
            /\ \/ normalizeName(msg.Reference.SenderName) = questioner
               \/ /\ refContent # <<>>
                  /\ questionContent # <<>>
                  /\ \/ Contains(questionContent, refContent)
                     \/ Contains(refContent, questionContent)
         \/ \E i \in 1..Len(msg.Mentions) : normalizeName(msg.Mentions[i]) = questioner
         \/ \E i \in 1..Len(q.Mentions) : normalizeName(q.Mentions[i]) = responderName

\* &questionStatus{...} of line 193.  ResponseMinutes is held exactly, as
\* the whole seconds of msgTime.Sub(q.AskedAt); Responders maps a normalized
\* name to a display name.
newQuestion(idx, m, msgTime) ==
  [Index |-> idx, Message |-> m, AskedAt |-> msgTime,
   Mentions |-> uniqueStrings(m.Mentions),
   NormalizedQuestioner |-> normalizeName(senderDisplay(m)),
   Resolved |-> FALSE, ResponseMinutes |-> 0, ResponseHour |-> 0,
   Responders |-> EmptyMap]

\* skipsQuestion without the test of q.Resolved.
skipsQuestionUnlessOpen(q, idx, msgTime) ==
  \/ idx <= q.Index
  \/ IsZero(msgTime)
  \/ (~IsZero(q.AskedAt) /\ Before(msgTime, q.AskedAt))

\* Whether the loop of line 162 skips q for the message at idx.
skipsQuestion(q, idx, msgTime) ==
  \/ q.Resolved
  \/ idx <= q.Index
  \/ IsZero(msgTime)
  \/ (~IsZero(q.AskedAt) /\ Before(msgTime, q.AskedAt))

\* resolveQuestion keeping no record of who replied.
resolveQuestionUnnamed(q, m, msgTime) ==
  [q EXCEPT
    !.Resolved = TRUE,
    !.ResponseMinutes =
      IF ~IsZero(msgTime) /\ ~IsZero(q.AskedAt) /\ After(msgTime, q.AskedAt)
      THEN SubSeconds(msgTime, q.AskedAt) ELSE @,
    !.ResponseHour = IF IsZero(msgTime) THEN -1 ELSE Hour(msgTime)]

\* Lines 173-187: q marked resolved by m.
resolveQuestion(q, m, msgTime) ==
  LET display == senderDisplay(m)
  IN  [q EXCEPT
        !.Resolved = TRUE,
        !.ResponseMinutes =
          IF ~IsZero(msgTime) /\ ~IsZero(q.AskedAt) /\ After(msgTime, q.AskedAt)
          THEN SubSeconds(msgTime, q.AskedAt) ELSE @,
        !.ResponseHour = IF IsZero(msgTime) THEN -1 ELSE Hour(msgTime),
        !.Responders =
          IF display # <<>>
          THEN [k \in DOMAIN @ \cup {normalizeName(display)} |->
                  IF k = normalizeName(display) THEN display ELSE @[k]]
          ELSE @]

\* A pass that stops at the first entry it resolves.
resolveQuestionsFirst(questions, m, idx, msgTime, text) ==
  LET hits == {i \in 1..Len(questions) :
                 ~skipsQuestion(questions[i], idx, msgTime)
                 /\ matchesQuestionResponse(m, questions[i], text)}
  IN  [i \in 1..Len(questions) |->
         IF i \in hits /\ \A j \in hits : i <= j
         THEN resolveQuestion(questions[i], m, msgTime)
         ELSE questions[i]]

\* One pass of the loop of line 162 over the ledger.
resolveQuestions(questions, m, idx, msgTime, text) ==
  [i \in 1..Len(questions) |->
     IF ~skipsQuestion(questions[i], idx, msgTime)
        /\ matchesQuestionResponse(m, questions[i], text)
     THEN resolveQuestion(questions[i], m, msgTime)
     ELSE questions[i]]

(***************************************************************************)
(* BuildSummary: the pass over the messages (lines 91-216)                 *)
(***************************************************************************)

\* The locals before the first message.  sentimentPos and sentimentNeg are
\* in halves.
InitLoop ==
  [senderCount |-> EmptyMap, linkCount |-> EmptyMap, tokenCount |-> EmptyMap,
   messagesText |-> <<>>,
   analytics |-> [infoDense |-> 0, mentionMsg |-> 0, questionMsg |-> 0,
                  exclaimMsg |-> 0, sentimentPos |-> 0, sentimentNeg |-> 0],
   questions |-> <<>>, lastTime |-> ZeroTime,
   HourlyHistogram |-> [h \in 0..23 |-> 0], ImageCount |-> 0]

\* text := m.Content, or m.Text when that is empty (lines 124-127)
messageText(m) == IF m.Content = <<>> THEN m.Text ELSE m.Content

\* ts of lines 111-114
histogramTs(m) == IF TsIsZero(m.Timestamp) THEN m.CreateTime ELSE m.Timestamp

\* bumpHistogram with the guard ts >= 0.
bumpHistogramFromZero(hist, m, zone) ==
  LET ts == histogramTs(m)
  IN  IF ~TsPositive(ts) /\ ~TsIsZero(ts) THEN hist
      ELSE [hist EXCEPT ![Hour(UnixLocal(TsSeconds(ts), zone))] = @ + 1]

\* Lines 115-121: the histogram after message m.
bumpHistogram(hist, m, zone) ==
  LET ts == histogramTs(m)
  IN  IF TsPositive(ts)
      THEN [hist EXCEPT ![Hour(UnixLocal(TsSeconds(ts), zone))] = @ + 1]
      ELSE hist

\* Lines 131-134
foundLinks(m) ==
  extractURLs(messageText(m))
    \o (IF m.Share.present /\ m.Share.URL # <<>> THEN <<m.Share.URL>> ELSE <<>>)

\* "!" and the full-width "!" (U+FF01)
ExclaimMarks == {33, 65281}

\* What the loop body derives from message m alone: the sender, the text,
\* the links, the sentiment signals and the tokens.
messageFacts(m) ==
  [s |-> senderDisplay(m),
   text |-> messageText(m),
   links |-> foundLinks(m),
   signals |-> sentimentSignals(messageText(m), m.Emojis),
   tokens |-> messageTokens(messageText(m))]

\* The body of the loop for message m at index idx (0-based), f being
\* messageFacts(m).
StepWith(L, m, f, idx, zone) ==
  LET s == f.s
      text == f.text
      links == f.links
      signals == f.signals
      msgTime == messageTime(m, zone)
      a == L.analytics
      resolved == resolveQuestions(L.questions, m, idx, msgTime, text)
  IN  [senderCount |-> IF s # <<>> THEN Incr(L.senderCount, s) ELSE L.senderCount,
       linkCount |-> IncrAll(L.linkCount, links),
       tokenCount |-> IncrAll(L.tokenCount, f.tokens),
       messagesText |-> IF text # <<>> THEN Append(L.messagesText, text)
                        ELSE L.messagesText,
       analytics |->
         [infoDense |-> a.infoDense
            + (IF Len(links) > 0 \/ runeLen(text) > 80 \/ m.MsgType = 49 THEN 1 ELSE 0),
          mentionMsg |-> a.mentionMsg + (IF Len(m.Mentions) > 0 THEN 1 ELSE 0),
          questionMsg |-> a.questionMsg + (IF m.IsQuestion THEN 1 ELSE 0),
          exclaimMsg |-> a.exclaimMsg
            + (IF Range(text) \cap ExclaimMarks # {} THEN 1 ELSE 0),
          sentimentPos |-> a.sentimentPos + signals[1],
          sentimentNeg |-> a.sentimentNeg + signals[2]],
       questions |-> IF shouldTrackQuestion(m, text)
                     THEN Append(resolved, newQuestion(idx, m, msgTime))
                     ELSE resolved,
       lastTime |-> IF ~IsZero(msgTime) /\ After(msgTime, L.lastTime)
                    THEN msgTime ELSE L.lastTime,
       HourlyHistogram |-> bumpHistogram(L.HourlyHistogram, m, zone),
       ImageCount |-> L.ImageCount + (IF m.MsgType = 3 THEN 1 ELSE 0)]

(***************************************************************************)
(* BuildSummary: after the loop (lines 218-290)                            *)
(***************************************************************************)

\* The entries of a map[string]int.
Entries(m) == {[Key |-> k, Count |-> m[k]] : k \in DOMAIN m}

\* topKLess that compares the counts alone.
topKLessByCount(a, b) == a.Count > b.Count

\* The less of topK: count descending, then key ascending.
topKLess(a, b) ==
  IF a.Count = b.Count THEN StrLess(a.Key, b.Key) ELSE a.Count > b.Count

\* sort.Slice under topKLess.  Keys are distinct, so topKLess is a strict
\* total order and the result does not depend on the order in which the map
\* was ranged over: the entries are inserted one by one into a sorted slice.
insertEntry(sorted, x) ==
  LET below == {i \in 1..Len(sorted) : topKLess(sorted[i], x)}
      n == Cardinality(below)
  IN  SubSeq(sorted, 1, n) \o <<x>> \o SubSeq(sorted, n + 1, Len(sorted))

RECURSIVE sortEntries(_)
sortEntries(S) ==
  IF S = {} THEN <<>>
  ELSE LET x == CHOOSE x \in S : TRUE
       IN  insertEntry(sortEntries(S \ {x}), x)

Prefix(seq, k) == IF Len(seq) > k THEN SubSeq(seq, 1, k) ELSE seq

topK(m, k) == Prefix(sortEntries(Entries(m)), k)

\* topKKeys sorts by count alone (line 768).  The map is ranged over in an
\* order that differs from run to run, and entries of equal count compare
\* equal, so sort.Slice may leave them in any order: every arrangement with
\* non-increasing counts is a result the build can produce.
RECURSIVE countOrders(_)
countOrders(S) ==
  IF S = {} THEN {<<>>}
  ELSE UNION {{<<x.Key>> \o rest : rest \in countOrders(S \ {x})} :
                x \in {e \in S : \A y \in S : e.Count >= y.Count}}

topKKeys(m, k) == {Prefix(o, k) : o \in countOrders(Entries(m))}

\* Lines 219-227
\* peakHourOf that moves to a later hour on an equal count (v >= peakValue).
peakHourOfLast(hist) ==
  CHOOSE h \in 0..23 :
    /\ \A g \in 0..23 : hist[g] <= hist[h]
    /\ \A g \in (h + 1)..23 : hist[g] < hist[h]

peakHourOf(hist) ==
  IF \A h \in 0..23 : hist[h] = 0 THEN 0
  ELSE CHOOSE h \in 0..23 :
         /\ \A g \in 0..23 : hist[g] <= hist[h]
         /\ \A g \in 0..(h - 1) : hist[g] < hist[h]

\* Lines 268-275: the first text of idxs that is longer than all before it.
representative(texts, idxs) ==
  LET best == CHOOSE i \in idxs :
                /\ \A j \in idxs : runeLen(texts[j]) <= runeLen(texts[i])
                /\ \A j \in idxs : j < i => runeLen(texts[j]) < runeLen(texts[i])
  IN  texts[best]

MaxTopics == 5

MinTopicCount == 3

\* buildTopics that skips a token only when an accepted name contains it.
RECURSIVE buildTopicsOneWay(_, _, _)
buildTopicsOneWay(tokens, texts, topics) ==
  IF tokens = <<>> \/ Len(topics) >= MaxTopics THEN topics
  ELSE LET tk == Head(tokens)
           idxs == {i \in 1..Len(texts) : Contains(texts[i], tk)}
           skip == \E j \in 1..Len(topics) : Contains(topics[j].Name, tk)
       IN  IF Cardinality(idxs) < MinTopicCount \/ skip
           THEN buildTopicsOneWay(Tail(tokens), texts, topics)
           ELSE buildTopicsOneWay(Tail(tokens), texts,
                  Append(topics, [Name |-> tk, Keywords |-> <<tk>>,
                                  Count |-> Cardinality(idxs),
                                  Representative |-> representative(texts, idxs)]))

\* Lines 242-283, from the tokens still to try and the topics accepted so far.
RECURSIVE buildTopics(_, _, _)
buildTopics(tokens, texts, topics) ==
  IF tokens = <<>> \/ Len(topics) >= MaxTopics THEN topics
  ELSE LET tk == Head(tokens)
           idxs == {i \in 1..Len(texts) : Contains(texts[i], tk)}
           skip == \E j \in 1..Len(topics) :
                     Contains(topics[j].Name, tk) \/ Contains(tk, topics[j].Name)
       IN  IF Cardinality(idxs) < MinTopicCount \/ skip
           THEN buildTopics(Tail(tokens), texts, topics)
           ELSE buildTopics(Tail(tokens), texts,
                  Append(topics, [Name |-> tk, Keywords |-> <<tk>>,
                                  Count |-> Cardinality(idxs),
                                  Representative |-> representative(texts, idxs)]))

\* buildHighlights.  A highlight is held as its kind and the values printed
\* into it; the links line prints the host of the first top link, held here
\* as that link.
buildHighlights(s) ==
  << [kind |-> "stats", a |-> <<s.TotalMessages, s.UniqueSenders, s.PeakHour>>] >>
  \o (IF Len(s.TopSenders) > 0
      THEN << [kind |-> "senders", a |-> Prefix(s.TopSenders, 3)] >> ELSE <<>>)
  \o (IF Len(s.Topics) > 0
      THEN << [kind |-> "topics",
               a |-> [i \in 1..Len(Prefix(s.Topics, 3)) |-> s.Topics[i].Name]] >>
      ELSE <<>>)
  \o (IF Len(s.TopLinks) > 0
      THEN << [kind |-> "links", a |-> <<Len(s.TopLinks), s.TopLinks[1]>>] >>
      ELSE <<>>)
  \o (IF s.ImageCount > 0 THEN << [kind |-> "images", a |-> <<s.ImageCount>>] >> ELSE <<>>)

(***************************************************************************)
(* buildGroupVibes, in exact fractions [n, d] with d > 0                   *)
(***************************************************************************)

\* clamp01 without the upper bound.
clampBelow(v) == IF v.n < 0 THEN [n |-> 0, d |-> 1] ELSE v

clamp01(v) ==
  IF v.n < 0 THEN [n |-> 0, d |-> 1]
  ELSE IF v.n > v.d THEN [n |-> 1, d |-> 1]
  ELSE v

\* math.Round(v * scale), for v >= 0: halves round up
roundScaled(v, scale) == (2 * scale * v.n + v.d) \div (2 * v.d)

\* v >= a/b and v <= a/b
FracGE(v, a, b) == v.n * b >= a * v.d

FracLE(v, a, b) == v.n * b <= a * v.d

Abs(x) == IF x < 0 THEN -x ELSE x

GroupVibesZero ==
  [Score |-> 0, Activity |-> 0, Sentiment |-> 0, InfoDensity |-> 0,
   Controversy |-> 0, Tone |-> "", Reasons |-> <<>>]

\* Lines 330-373, for a positive number of messages.  The tone labels and
\* reasons are named in English here; the source holds the Chinese text.
\* Activity .. Controversy are hundredths.
groupVibesOf(s, analytics) ==
    LET total == s.TotalMessages
        activity == clamp01([n |-> 5 * total + 16 * s.UniqueSenders, d |-> 400])
        sentiment ==
          clamp01([n |-> 3 * total + 2 * (analytics.sentimentPos - analytics.sentimentNeg),
                   d |-> 6 * total])
        infoDensity == clamp01([n |-> analytics.infoDense, d |-> total])
        controversy ==
          clamp01([n |-> analytics.questionMsg + analytics.mentionMsg + analytics.exclaimMsg,
                   d |-> total])
        balanced ==
          clamp01([n |-> 7 * controversy.d - Abs(7 * controversy.d - 20 * controversy.n),
                   d |-> 7 * controversy.d])
        weighted ==
          [n |-> 35 * activity.n * sentiment.d * infoDensity.d * balanced.d
                 + 30 * sentiment.n * activity.d * infoDensity.d * balanced.d
                 + 20 * infoDensity.n * activity.d * sentiment.d * balanced.d
                 + 15 * balanced.n * activity.d * sentiment.d * infoDensity.d,
           d |-> activity.d * sentiment.d * infoDensity.d * balanced.d]
        score == roundScaled(weighted, 1)
    IN  [Score |-> score,
         Activity |-> roundScaled(activity, 100),
         Sentiment |-> roundScaled(sentiment, 100),
         InfoDensity |-> roundScaled(infoDensity, 100),
         Controversy |-> roundScaled(controversy, 100),
         Tone |-> IF score >= 85 THEN "buzzing"
                  ELSE IF score >= 70 THEN "active"
                  ELSE IF score <= 40 THEN "subdued"
                  ELSE "steady",
         Reasons |->
           (IF FracGE(activity, 7, 10) THEN <<"high volume">>
            ELSE IF FracLE(activity, 3, 10) THEN <<"low volume">> ELSE <<>>)
           \o (IF FracGE(sentiment, 6, 10) THEN <<"positive">>
               ELSE IF FracLE(sentiment, 4, 10) THEN <<"negative">> ELSE <<>>)
           \o (IF FracGE(infoDensity, 5, 10) THEN <<"dense">> ELSE <<>>)
           \o (IF FracGE(controversy, 55, 100) THEN <<"controversial">>
               ELSE IF FracLE(controversy, 2, 10) THEN <<"calm">> ELSE <<>>)]

\* buildGroupVibes without the guard of line 327.  With no messages every
\* quotient but the activity's is 0/0, a NaN: clamp01 returns it, every
\* comparison with it is false, and the conversion of the NaN score to int
\* gives a value the language leaves to the implementation, none of them
\* greater than 40 on the supported targets; 0 stands for it.
buildGroupVibesUnguarded(s, analytics) ==
  IF s.TotalMessages = 0
  THEN [GroupVibesZero EXCEPT !.Tone = "subdued", !.Reasons = <<"low volume">>]
  ELSE groupVibesOf(s, analytics)

\* buildGroupVibes (lines 326-374)
buildGroupVibes(s, analytics) ==
  IF s.TotalMessages = 0 THEN GroupVibesZero ELSE groupVibesOf(s, analytics)

(***************************************************************************)
(* buildReplyDebt                                                          *)
(***************************************************************************)

MaxQuestionRunes == 120

\* U+2026, the ellipsis
Ellipsis == <<8230>>

trimQuestionText(m) ==
  LET own == TrimSpace(messageText(m))
      text == IF own = <<>> /\ m.Reference.present
              THEN TrimSpace(m.Reference.Content) ELSE own
  IN  IF text = <<>> THEN <<>>
      ELSE IF Len(text) > MaxQuestionRunes
      THEN SubSeq(text, 1, MaxQuestionRunes) \o Ellipsis
      ELSE text

\* roundTenths that truncates.
roundTenthsDown(sec, parts) == sec \div (6 * parts)

\* roundTo(sec/60/parts, 1) in tenths of a minute, for sec >= 0: halves up
roundTenths(sec, parts) == (2 * sec + 6 * parts) \div (12 * parts)

\* sort.Strings
RECURSIVE sortStrings(_)
sortStrings(S) ==
  IF S = {} THEN <<>>
  ELSE LET x == CHOOSE x \in S : \A y \in S \ {x} : StrLess(x, y)
       IN  <<x>> \o sortStrings(S \ {x})

\* The hours of counts, by count descending then hour ascending.
RECURSIVE sortHours(_, _)
sortHours(counts, H) ==
  IF H = {} THEN <<>>
  ELSE LET h == CHOOSE h \in H : \A g \in H \ {h} :
                  IF counts[h] = counts[g] THEN h < g ELSE counts[h] > counts[g]
       IN  <<h>> \o sortHours(counts, H \ {h})

\* bestHours in the order of the hours.
bestHoursByHour(counts, limit) ==
  LET none == [h \in DOMAIN counts |-> 0]
      arr == sortHours(none, {h \in DOMAIN counts : h >= 0})
  IN  IF DOMAIN counts = {} \/ limit = 0 THEN <<>>
      ELSE IF limit > 0 THEN Prefix(arr, limit) ELSE arr

bestHours(counts, limit) ==
  LET arr == sortHours(counts, {h \in DOMAIN counts : h >= 0})
  IN  IF DOMAIN counts = {} \/ limit = 0 THEN <<>>
      ELSE IF limit > 0 THEN Prefix(arr, limit) ELSE arr

\* Lines 385-395 and 396-423: the item of one ledger entry.  AskedAt is the
\* RFC3339 text of q.AskedAt, held as the time it spells (the zero Time for
\* the empty text); AgeMinutes and ResponseMinutes are tenths of a minute.
replyItem(q, lastTime) ==
  [Questioner |-> senderDisplay(q.Message),
   Question |-> trimQuestionText(q.Message),
   AskedAt |-> q.AskedAt,
   Mentions |-> q.Mentions,
   ResponseMinutes |-> IF q.Resolved THEN roundTenths(q.ResponseMinutes, 1) ELSE 0,
   Responders |-> IF q.Resolved
                  THEN sortStrings({q.Responders[k] : k \in DOMAIN q.Responders})
                  ELSE <<>>,
   AgeMinutes |->
     IF ~q.Resolved /\ ~IsZero(lastTime) /\ ~IsZero(q.AskedAt)
     THEN LET age == SubSeconds(lastTime, q.AskedAt)
          IN  roundTenths(IF age < 0 THEN 0 ELSE age, 1)
     ELSE 0]

\* selectQuestions that leaves out the entries with no asked-at time.
RECURSIVE selectQuestionsTimed(_, _)
selectQuestionsTimed(questions, resolved) ==
  IF questions = <<>> THEN <<>>
  ELSE (IF Head(questions).Resolved = resolved /\ ~IsZero(Head(questions).AskedAt)
        THEN <<Head(questions)>> ELSE <<>>)
       \o selectQuestionsTimed(Tail(questions), resolved)

\* The entries of questions with the given Resolved flag, in order.
RECURSIVE selectQuestions(_, _)
selectQuestions(questions, resolved) ==
  IF questions = <<>> THEN <<>>
  ELSE (IF Head(questions).Resolved = resolved THEN <<Head(questions)>> ELSE <<>>)
       \o selectQuestions(Tail(questions), resolved)

RECURSIVE SumSeq(_)
SumSeq(s) == IF s = <<>> THEN 0 ELSE Head(s) + SumSeq(Tail(s))

ReplyDebtZero ==
  [Outstanding |-> <<>>, Resolved |-> <<>>, AvgResponseMinutes |-> 0,
   BestResponseHours |-> <<>>]

\* buildReplyDebt taking the mean over all resolved entries.
buildReplyDebtMeanOfAll(questions, lastTime) ==
  IF Len(questions) = 0 THEN ReplyDebtZero
  ELSE
    LET res == selectQuestions(questions, TRUE)
        out == selectQuestions(questions, FALSE)
        totalResponse == SumSeq([i \in 1..Len(res) |-> res[i].ResponseMinutes])
        hours == {res[i].ResponseHour : i \in {j \in 1..Len(res) : res[j].ResponseHour >= 0}}
        hourCounts == [h \in hours |->
                         Cardinality({i \in 1..Len(res) : res[i].ResponseHour = h})]
    IN  [Outstanding |-> [i \in 1..Len(out) |-> replyItem(out[i], lastTime)],
         Resolved |-> [i \in 1..Len(res) |-> replyItem(res[i], lastTime)],
         AvgResponseMinutes |->
           IF Len(res) > 0 THEN roundTenths(totalResponse, Len(res)) ELSE 0,
         BestResponseHours |-> bestHours(hourCounts, 3)]

buildReplyDebt(questions, lastTime) ==
  IF Len(questions) = 0 THEN ReplyDebtZero
  ELSE
    LET res == selectQuestions(questions, TRUE)
        out == selectQuestions(questions, FALSE)
        timed == {i \in 1..Len(res) : res[i].ResponseMinutes > 0}
        totalResponse == SumSeq([i \in 1..Len(res) |-> res[i].ResponseMinutes])
        hours == {res[i].ResponseHour : i \in {j \in 1..Len(res) : res[j].ResponseHour >= 0}}
        hourCounts == [h \in hours |->
                         Cardinality({i \in 1..Len(res) : res[i].ResponseHour = h})]
    IN  [Outstanding |-> [i \in 1..Len(out) |-> replyItem(out[i], lastTime)],
         Resolved |-> [i \in 1..Len(res) |-> replyItem(res[i], lastTime)],
         AvgResponseMinutes |->
           IF Cardinality(timed) > 0
           THEN roundTenths(totalResponse, Cardinality(timed)) ELSE 0,
         BestResponseHours |-> bestHours(hourCounts, 3)]

(***************************************************************************)
(* the Summary                                                             *)
(***************************************************************************)

\* Summary{}
SummaryZero ==
  [TotalMessages |-> 0, UniqueSenders |-> 0, TopSenders |-> <<>>, TopLinks |-> <<>>,
   HourlyHistogram |-> [h \in 0..23 |-> 0], Keywords |-> <<>>, PeakHour |-> 0,
   Highlights |-> <<>>, Topics |-> <<>>, ImageCount |-> 0,
   GroupVibes |-> GroupVibesZero, ReplyDebt |-> ReplyDebtZero]

\* Lines 218-290 for the locals L after total messages, with links the
\* result topKKeys gave.
summaryOf(L, total, links) ==
  LET keywords == topK(L.tokenCount, 20)
      base == [SummaryZero EXCEPT
                 !.TotalMessages = total,
                 !.HourlyHistogram = L.HourlyHistogram,
                 !.ImageCount = L.ImageCount,
                 !.PeakHour = peakHourOf(L.HourlyHistogram),
                 !.UniqueSenders = Cardinality(DOMAIN L.senderCount),
                 !.TopSenders = topK(L.senderCount, 5),
                 !.TopLinks = links,
                 !.Keywords = keywords,
                 !.Topics = buildTopics([i \in 1..Len(keywords) |-> keywords[i].Key],
                                        L.messagesText, <<>>)]
  IN  [base EXCEPT
         !.Highlights = buildHighlights(base),
         !.GroupVibes = buildGroupVibes(base, L.analytics),
         !.ReplyDebt = buildReplyDebt(L.questions, L.lastTime)]

(***************************************************************************)
(* inputs                                                                  *)
(***************************************************************************)

\* "Alice"
Alice ==
  <<65, 108, 105, 99, 101>>

\* "ALICE ": another spelling that normalizes to "alice"
AliceShout ==
  <<65, 76, 73, 67, 69, 32>>

\* "Bob"
Bob ==
  <<66, 111, 98>>

\* "Carol"
Carol ==
  <<67, 97, 114, 111, 108>>

\* "!!": a name that normalizes to the empty string
Bangs ==
  <<33, 33>>

\* "why so?"
Why ==
  <<119, 104, 121, 32, 115, 111, 63>>

\* "how?"
How ==
  <<104, 111, 119, 63>>

\* "ok"
Ok ==
  <<111, 107>>

\* 2023-11-14T22:13:20Z in seconds, then 100 s and 300 s later, 60 s earlier,
\* and 300 s later in milliseconds.
T0 ==
  <<1700000, 0>>

T100 ==
  <<1700000, 100>>

T300 ==
  <<1700000, 300>>

TEarly ==
  <<1699999, 940>>

T300ms ==
  <<1700000300, 0>>

\* 3603 s later: the next hour
THour ==
  <<1700003, 603>>

RefTo(name, content) ==
  [present |-> TRUE, SenderName |-> name, Content |-> content]

ShareOf(url) ==
  [present |-> TRUE, URL |-> url]

\* The messages of the reply ledger: questions, and replies by reference,
\* by quotation and by mention, at known, earlier and unknown times.
LedgerCorpus ==
  LET
      \* Alice asks at T0
      AskAlice ==
        [ZeroMessage EXCEPT
           !.SenderName = Alice,
           !.Timestamp = T0,
           !.Content = Why,
           !.IsQuestion = TRUE,
           !.MsgType = 1]
      \* Alice asks Bob at T100; her name is in Nickname
      AskAliceAtBob ==
        [ZeroMessage EXCEPT
           !.Nickname = Alice,
           !.Timestamp = T100,
           !.Text = How,
           !.IsQuestion = TRUE,
           !.Mentions = <<Bob, Bob>>]
      \* Alice asks, with no time
      AskAliceNoTime ==
        [ZeroMessage EXCEPT
           !.SenderName = Alice,
           !.Content = How,
           !.IsQuestion = TRUE]
      \* "!!" asks at T0
      AskBangs ==
        [ZeroMessage EXCEPT
           !.SenderName = Bangs,
           !.Timestamp = T0,
           !.Content = Why,
           !.IsQuestion = TRUE]
      \* a question flag on an image
      AskImage ==
        [ZeroMessage EXCEPT
           !.SenderName = Alice,
           !.Timestamp = T0,
           !.Content = How,
           !.IsQuestion = TRUE,
           !.MsgType = 3]
      \* Bob replies to Alice's message at T100
      BobRefs100 ==
        [ZeroMessage EXCEPT
           !.SenderName = Bob,
           !.Timestamp = T100,
           !.Content = Ok,
           !.Reference = RefTo(Alice, Why)]
      \* Bob replies to Alice's message at T300, in milliseconds
      BobRefs300 ==
        [ZeroMessage EXCEPT
           !.Sender = Bob,
           !.CreateTime = T300ms,
           !.Content = Ok,
           !.Reference = RefTo(Alice, Why)]
      \* Bob mentions Alice at T300
      BobMentions ==
        [ZeroMessage EXCEPT
           !.SenderName = Bob,
           !.Timestamp = T300,
           !.Content = Ok,
           !.Mentions = <<AliceShout>>]
      \* Bob says ok at the next hour
      BobPlain ==
        [ZeroMessage EXCEPT
           !.SenderName = Bob,
           !.Timestamp = THour,
           !.Content = Ok]
      \* Bob replies to Alice's message, with no time
      BobRefsNoTime ==
        [ZeroMessage EXCEPT
           !.SenderName = Bob,
           !.Content = Ok,
           !.Reference = RefTo(Alice, Why)]
      \* Bob replies to Alice's message, 60 s before T0
      BobRefsEarly ==
        [ZeroMessage EXCEPT
           !.SenderName = Bob,
           !.Timestamp = TEarly,
           !.Content = Ok,
           !.Reference = RefTo(Alice, Why)]
      \* Bob replies to Alice's message with a question at T100
      BobAsksBack ==
        [ZeroMessage EXCEPT
           !.SenderName = Bob,
           !.Timestamp = T100,
           !.Content = How,
           !.IsQuestion = TRUE,
           !.Reference = RefTo(Alice, Why)]
      \* "ALICE " replies to Alice's message at T300
      ShoutRefs ==
        [ZeroMessage EXCEPT
           !.SenderName = AliceShout,
           !.Timestamp = T300,
           !.Content = Ok,
           !.Reference = RefTo(Alice, Why)]
      \* "!!" replies to Alice's message at T300
      BangsRefs ==
        [ZeroMessage EXCEPT
           !.SenderName = Bangs,
           !.Timestamp = T300,
           !.Content = Ok,
           !.Reference = RefTo(Alice, Why)]
      \* Carol quotes part of the question at T300, naming no sender
      CarolQuotes ==
        [ZeroMessage EXCEPT
           !.From = Carol,
           !.Timestamp = T300,
           !.Content = Ok,
           !.Reference = RefTo(<<>>, <<115, 111, 63>>)]
  IN  {AskAlice,
       AskAliceAtBob,
       AskAliceNoTime,
       AskBangs,
       AskImage,
       BobRefs100,
       BobRefs300,
       BobMentions,
       BobPlain,
       BobRefsNoTime,
       BobRefsEarly,
       BobAsksBack,
       ShoutRefs,
       BangsRefs,
       CarolQuotes}

\* "https://a.com/x"
LinkA ==
  <<104, 116, 116, 112, 115, 58, 47, 47, 97, 46, 99, 111, 109, 47, 120>>

\* "http://b.io"
LinkB ==
  <<104, 116, 116, 112, 58, 47, 47, 98, 46, 105, 111>>

\* "http://c.io"
LinkC ==
  <<104, 116, 116, 112, 58, 47, 47, 99, 46, 105, 111>>

\* The messages with links and words.
TextCorpus ==
  LET
      \* a run of twelve different Han characters, none of them in a stopword
      HanRun ==
        <<20170, 22825, 26500, 24314, 22833, 36133, 21407, 22240, 26085, 24535, 36229, 26102>>
      \* "https://a.com/x https://a.com/x"
      TwiceA ==
        [ZeroMessage EXCEPT
           !.SenderName = Alice,
           !.Content = <<104, 116, 116, 112, 115, 58, 47, 47, 97, 46, 99, 111, 109, 47, 120, 32, 104, 116, 116, 112, 115, 58, 47, 47, 97, 46, 99, 111, 109, 47, 120>>]
      \* "http://b.io, https://a.com/x."
      TwoLinks ==
        [ZeroMessage EXCEPT
           !.SenderName = Bob,
           !.Content = <<104, 116, 116, 112, 58, 47, 47, 98, 46, 105, 111, 44, 32, 104, 116, 116, 112, 115, 58, 47, 47, 97, 46, 99, 111, 109, 47, 120, 46>>]
      \* a shared article whose text is its own link
      ShareSame ==
        [ZeroMessage EXCEPT
           !.SenderName = Bob,
           !.MsgType = 49,
           !.Content = LinkA,
           !.Share = ShareOf(LinkA)]
      \* a share with no text
      ShareOnly ==
        [ZeroMessage EXCEPT
           !.SenderName = Carol,
           !.MsgType = 49,
           !.Share = ShareOf(LinkC)]
      \* "aaa bbb ccc ddd eee fff"
      SixWords ==
        [ZeroMessage EXCEPT
           !.SenderName = Alice,
           !.Content = <<97, 97, 97, 32, 98, 98, 98, 32, 99, 99, 99, 32, 100, 100, 100, 32, 101, 101, 101, 32, 102, 102, 102>>]
      \* "acat cat"
      CatWords ==
        [ZeroMessage EXCEPT
           !.SenderName = Alice,
           !.Text = <<97, 99, 97, 116, 32, 99, 97, 116>>]
      \* "Build BUILD the ab"
      Shouted ==
        [ZeroMessage EXCEPT
           !.SenderName = Carol,
           !.Content = <<66, 117, 105, 108, 100, 32, 66, 85, 73, 76, 68, 32, 116, 104, 101, 32, 97, 98>>]
      \* the run of Han characters
      HanText ==
        [ZeroMessage EXCEPT
           !.SenderName = Bob,
           !.Content = HanRun]
  IN  {TwiceA,
       TwoLinks,
       ShareSame,
       ShareOnly,
       SixWords,
       CatWords,
       Shouted,
       HanText}

\* The messages with sentiment, flags, long text, images and shares.
VibesCorpus ==
  LET
      \* "great!" with three positive emojis, a question and a mention
      Cheer ==
        [ZeroMessage EXCEPT
           !.SenderName = Alice,
           !.Content = <<103, 114, 101, 97, 116, 33>>,
           !.Emojis = <<<<36190>>, <<79, 75>>, <<24378>>>>,
           !.IsQuestion = TRUE,
           !.Mentions = <<Bob>>]
      \* "bug??" with three negative emojis
      Gripe ==
        [ZeroMessage EXCEPT
           !.SenderName = Bob,
           !.Content = <<98, 117, 103, 63, 63>>,
           !.Emojis = <<<<24594>>, <<27735>>, <<32, 27882, 32>>>>]
      \* 81 times "a"
      LongText ==
        [ZeroMessage EXCEPT
           !.SenderName = Carol,
           !.Content = [i \in 1..81 |-> 97]]
      \* an image with no sender, no text and a blank emoji
      Image ==
        [ZeroMessage EXCEPT
           !.MsgType = 3,
           !.Emojis = <<<<32>>>>]
      \* a shared article
      Article ==
        [ZeroMessage EXCEPT
           !.Nickname = Bob,
           !.MsgType = 49,
           !.Share = ShareOf(LinkC)]
      \* "ok"
      Plain ==
        [ZeroMessage EXCEPT
           !.SenderName = Alice,
           !.Content = Ok]
      \* "ok" and a full-width exclamation mark
      WideBang ==
        [ZeroMessage EXCEPT
           !.Sender = Carol,
           !.Content = <<111, 107, 65281>>]
  IN  {Cheer,
       Gripe,
       LongText,
       Image,
       Article,
       Plain,
       WideBang}

\* The messages with each way of carrying a time.
TimeCorpus ==
  LET
      \* THour in milliseconds
      THourMs ==
        <<1700003603, 0>>
      \* -1000
      TNegative ==
        <<-1, 0>>
      \* "2023-11-14T22:13:20Z", which is T0
      StampZ ==
        <<50, 48, 50, 51, 45, 49, 49, 45, 49, 52, 84, 50, 50, 58, 49, 51, 58, 50, 48, 90>>
      \* "2023-11-15T07:13:23+08:00", which is THour
      StampEast ==
        <<50, 48, 50, 51, 45, 49, 49, 45, 49, 53, 84, 48, 55, 58, 49, 51, 58, 50, 51, 43, 48, 56, 58, 48, 48>>
      \* "yesterday"
      StampBad ==
        <<121, 101, 115, 116, 101, 114, 100, 97, 121>>
      \* Timestamp in seconds
      AtSeconds ==
        [ZeroMessage EXCEPT
           !.SenderName = Alice,
           !.Timestamp = T0]
      \* Timestamp in milliseconds
      AtMillis ==
        [ZeroMessage EXCEPT
           !.SenderName = Alice,
           !.Timestamp = THourMs]
      \* CreateTime alone
      AtCreate ==
        [ZeroMessage EXCEPT
           !.SenderName = Bob,
           !.CreateTime = THour]
      \* a negative Timestamp and a CreateTime
      AtNegativeCreate ==
        [ZeroMessage EXCEPT
           !.SenderName = Bob,
           !.Timestamp = TNegative,
           !.CreateTime = T0]
      \* negative numbers and a Time text
      AtNegativeString ==
        [ZeroMessage EXCEPT
           !.SenderName = Bob,
           !.Timestamp = TNegative,
           !.CreateTime = TNegative,
           !.Time = StampEast]
      \* a Time text alone
      AtString ==
        [ZeroMessage EXCEPT
           !.SenderName = Carol,
           !.Time = StampZ]
      \* a Time text that does not parse
      AtBadString ==
        [ZeroMessage EXCEPT
           !.SenderName = Carol,
           !.Time = StampBad]
      \* no time at all
      AtNothing ==
        [ZeroMessage EXCEPT
           !.SenderName = Carol]
  IN  {AtSeconds,
       AtMillis,
       AtCreate,
       AtNegativeCreate,
       AtNegativeString,
       AtString,
       AtBadString,
       AtNothing}

\* The messages that carry the question flag, or look like a question: by
\* type, by text, by length.
AskCorpus ==
  LET
      \* two spaces, flagged
      QBlank ==
        [ZeroMessage EXCEPT
           !.SenderName = Alice,
           !.Content = <<32, 32>>,
           !.IsQuestion = TRUE]
      \* "?", flagged
      QOne ==
        [ZeroMessage EXCEPT
           !.SenderName = Alice,
           !.Content = <<63>>,
           !.IsQuestion = TRUE]
      \* "why so?" in Text, Content empty, flagged, type 1
      QInText ==
        [ZeroMessage EXCEPT
           !.SenderName = Bob,
           !.MsgType = 1,
           !.Text = Why,
           !.IsQuestion = TRUE]
      \* "why so?" on an image, flagged
      QImage ==
        [ZeroMessage EXCEPT
           !.SenderName = Bob,
           !.MsgType = 3,
           !.Content = Why,
           !.IsQuestion = TRUE]
      \* "how?" on a shared article, flagged
      QArticle ==
        [ZeroMessage EXCEPT
           !.SenderName = Carol,
           !.MsgType = 49,
           !.Content = How,
           !.IsQuestion = TRUE]
      \* "why so?", not flagged
      QUnflagged ==
        [ZeroMessage EXCEPT
           !.SenderName = Carol,
           !.Content = Why]
      \* 120 times "b", flagged
      QFull ==
        [ZeroMessage EXCEPT
           !.SenderName = Alice,
           !.Timestamp = T0,
           !.Content = [i \in 1..120 |-> 98],
           !.IsQuestion = TRUE]
      \* 121 times "a", flagged
      QLong ==
        [ZeroMessage EXCEPT
           !.SenderName = Alice,
           !.Timestamp = T0,
           !.Content = [i \in 1..121 |-> 97],
           !.IsQuestion = TRUE]
      \* Bob replies to Alice at T300
      Reply ==
        [ZeroMessage EXCEPT
           !.SenderName = Bob,
           !.Timestamp = T300,
           !.Content = Ok,
           !.Reference = RefTo(Alice, <<>>)]
  IN  {QBlank,
       QOne,
       QInText,
       QImage,
       QArticle,
       QUnflagged,
       QFull,
       QLong,
       Reply}

\* Questions that answer one another: Alice and Bob in turn, each message a
\* question and a reply to the other, at 22:13:20, an hour later, and so on
\* past midnight.
HoursCorpus ==
  LET Asks(name, other, ts) ==
        [ZeroMessage EXCEPT
           !.SenderName = name,
           !.Timestamp = ts,
           !.Content = How,
           !.IsQuestion = TRUE,
           !.Reference = RefTo(other, <<>>)]
  IN  {Asks(Alice, Bob, T0),
       Asks(Bob, Alice, <<1700003, 600>>),
       Asks(Alice, Bob, <<1700007, 200>>),
       Asks(Bob, Alice, <<1700010, 800>>),
       Asks(Alice, Bob, <<1700014, 400>>)}

CorpusOf(name) ==
  IF name = "ledger" THEN LedgerCorpus
  ELSE IF name = "text" THEN TextCorpus
  ELSE IF name = "vibes" THEN VibesCorpus
  ELSE IF name = "ask" THEN AskCorpus
  ELSE IF name = "hours" THEN HoursCorpus
  ELSE TimeCorpus

Inputs ==
  LedgerCorpus \cup TextCorpus \cup VibesCorpus \cup TimeCorpus \cup AskCorpus
    \cup HoursCorpus

\* messageFacts on every input message, worked out once.
FactsOf == [m \in Inputs |-> messageFacts(m)]

Step(L, m, idx, zone) == StepWith(L, m, FactsOf[m], idx, zone)

\* The locals after the loop has ranged over all of ms.
RECURSIVE loopOver(_, _)
loopOver(ms, zone) ==
  IF ms = <<>> THEN InitLoop
  ELSE Step(loopOver(SubSeq(ms, 1, Len(ms) - 1), zone), ms[Len(ms)], Len(ms) - 1, zone)

\* Every Summary BuildSummary(ms) can return.
BuildSummary(ms, zone) ==
  LET L == loopOver(ms, zone)
  IN  {summaryOf(L, Len(ms), links) : links \in topKKeys(L.linkCount, 5)}

(***************************************************************************)
(* the REST API (internal/api/server.go)                                   *)
(*                                                                         *)
(* A request is [Method, Path, Date, Cond]: Date is the value of the       *)
(* query parameter date ("" when absent), Cond names the one conditional   *)
(* or range header the request carries, if any.  A response is the         *)
(* sequence wrote of the status codes passed to WriteHeader (the first is  *)
(* the status sent), the headers contentType, allow and location, and the  *)
(* body.  The data directory is a function from file names to files        *)
(* [kind, data], kind being "file", "absent", "denied" (open fails with a  *)
(* permission error) or "nostat" (open succeeds, Stat fails).              *)
(***************************************************************************)

\* "/api/v1/chatlogs"
ChatlogsRoute ==
  <<47, 97, 112, 105, 47, 118, 49, 47, 99, 104, 97, 116, 108, 111, 103, 115>>

\* ".json"
JsonSuffix ==
  <<46, 106, 115, 111, 110>>

\* cleanPath of net/http, which the mux applies to the path of every request:
\* path.Clean of the rooted path, the trailing slash kept.
cleanPath(p) ==
  LET rooted == IF p = <<>> \/ p[1] # 47 THEN <<47>> \o p ELSE p
      \* "." is dropped, ".." drops the element before it
      RECURSIVE cleanSegs(_, _)
      cleanSegs(todo, kept) ==
        IF todo = <<>> THEN kept
        ELSE IF Head(todo) = <<46>> THEN cleanSegs(Tail(todo), kept)
        ELSE IF Head(todo) = <<46, 46>>
             THEN cleanSegs(Tail(todo),
                            IF kept = <<>> THEN kept
                            ELSE SubSeq(kept, 1, Len(kept) - 1))
        ELSE cleanSegs(Tail(todo), Append(kept, Head(todo)))
      RECURSIVE joinSegs(_)
      joinSegs(todo) ==
        IF todo = <<>> THEN <<>> ELSE <<47>> \o Head(todo) \o joinSegs(Tail(todo))
      \* the elements of the path: its maximal runs without a slash
      segs == cleanSegs(RunsFrom(rooted, Range(rooted) \ {47}, 1), <<>>)
      np == IF segs = <<>> THEN <<47>> ELSE joinSegs(segs)
  IN  IF rooted[Len(rooted)] = 47 /\ np # <<47>> THEN np \o <<47>> ELSE np

\* registerRoutes: the handler the mux finds for a clean path.
route(p) ==
  IF p = ChatlogsRoute \/ HasPrefix(p, ChatlogsRoute \o <<47>>) THEN "chatlog"
  ELSE IF p = <<47, 104, 101, 97, 108, 116, 104, 122>> THEN "health"  \* "/healthz"
  ELSE "none"

\* A parse that looks at the shape alone: digits and hyphens in their places.
parsesAsDateShape(s) ==
  /\ Len(s) = 10
  /\ \A i \in {1, 2, 3, 4, 6, 7, 9, 10} : IsDigit(s[i])
  /\ s[5] = 45 /\ s[8] = 45

\* time.Parse("2006-01-02", s) succeeds: four digits, two and two, a month
\* and a day of that month, and nothing else.
parsesAsDate(s) ==
  /\ Len(s) = 10
  /\ \A i \in {1, 2, 3, 4, 6, 7, 9, 10} : IsDigit(s[i])
  /\ s[5] = 45 /\ s[8] = 45
  /\ Num2(s, 6) \in 1..12
  /\ Num2(s, 9) \in 1..DaysIn(Num4(s, 1), Num2(s, 6))

\* extractDate looking at the query first.
extractDateQueryFirst(r) ==
  LET rest == IF HasPrefix(r.Path, ChatlogsRoute)
              THEN SubSeq(r.Path, Len(ChatlogsRoute) + 1, Len(r.Path))
              ELSE r.Path
      keep == {i \in 1..Len(rest) : rest[i] # 47}
      path == IF keep = {} THEN <<>>
              ELSE SubSeq(rest, CHOOSE i \in keep : \A j \in keep : i <= j,
                                CHOOSE i \in keep : \A j \in keep : i >= j)
      date == IF TrimSpace(r.Date) = <<>> THEN path ELSE TrimSpace(r.Date)
  IN  IF date = <<>> THEN [ok |-> FALSE, date |-> <<>>]
      ELSE IF 47 \in Range(date) THEN [ok |-> FALSE, date |-> <<>>]
      ELSE IF ~parsesAsDate(date) THEN [ok |-> FALSE, date |-> <<>>]
      ELSE [ok |-> TRUE, date |-> date]

\* extractDate handing on whatever it is given.
extractDateUnchecked(r) ==
  LET rest == IF HasPrefix(r.Path, ChatlogsRoute)
              THEN SubSeq(r.Path, Len(ChatlogsRoute) + 1, Len(r.Path))
              ELSE r.Path
      keep == {i \in 1..Len(rest) : rest[i] # 47}
      path == IF keep = {} THEN <<>>
              ELSE SubSeq(rest, CHOOSE i \in keep : \A j \in keep : i <= j,
                                CHOOSE i \in keep : \A j \in keep : i >= j)
      date == IF path = <<>> THEN TrimSpace(r.Date) ELSE path
  IN  IF date = <<>> THEN [ok |-> FALSE, date |-> <<>>]
      ELSE [ok |-> TRUE, date |-> date]

\* extractDate: [ok, date]
extractDate(r) ==
  LET \* strings.TrimPrefix(r.URL.Path, "/api/v1/chatlogs")
      rest == IF HasPrefix(r.Path, ChatlogsRoute)
              THEN SubSeq(r.Path, Len(ChatlogsRoute) + 1, Len(r.Path))
              ELSE r.Path
      \* strings.Trim(path, "/")
      keep == {i \in 1..Len(rest) : rest[i] # 47}
      path == IF keep = {} THEN <<>>
              ELSE SubSeq(rest, CHOOSE i \in keep : \A j \in keep : i <= j,
                                CHOOSE i \in keep : \A j \in keep : i >= j)
      date == IF path = <<>> THEN TrimSpace(r.Date) ELSE path
  IN  IF date = <<>> THEN [ok |-> FALSE, date |-> <<>>]
      ELSE IF 47 \in Range(date) THEN [ok |-> FALSE, date |-> <<>>]
      ELSE IF ~parsesAsDate(date) THEN [ok |-> FALSE, date |-> <<>>]
      ELSE [ok |-> TRUE, date |-> date]

JsonType == "application/json; charset=utf-8"

\* The response before the handler has written anything.
NoResponse ==
  [wrote |-> <<>>, contentType |-> "", allow |-> "", location |-> <<>>,
   body |-> [kind |-> "none", data |-> <<>>]]

\* writeError on the response w: the JSON object {"error": ...}
writeError(w, status) ==
  [w EXCEPT !.contentType = JsonType,
            !.wrote = Append(@, status),
            !.body = [kind |-> "error", data |-> <<>>]]

\* methodNotAllowed
methodNotAllowed(w, allow) == writeError([w EXCEPT !.allow = allow], 405)

\* ServeContent answering as to a HEAD request: the status and no body.
ServeContentHead(w, r, data) == [w EXCEPT !.wrote = Append(@, 200)]

\* http.ServeContent of line 104 for a file of at least one byte, the
\* Content-Type being set already: the whole file with 200; 304 and no
\* Content-Type for If-None-Match: *; 412 for an If-Match that names an
\* entity tag (the response has none); the first byte with 206 for
\* Range: bytes=0-0.
ServeContent(w, r, data) ==
  IF r.Cond = "IfNoneMatch"
  THEN [w EXCEPT !.wrote = Append(@, 304), !.contentType = ""]
  ELSE IF r.Cond = "IfMatch"
  THEN [w EXCEPT !.wrote = Append(@, 412)]
  ELSE IF r.Cond = "Range"
  THEN [w EXCEPT !.wrote = Append(@, 206),
                 !.body = [kind |-> "bytes", data |-> SubSeq(data, 1, 1)]]
  ELSE [w EXCEPT !.wrote = Append(@, 200),
                 !.body = [kind |-> "bytes", data |-> data]]

\* streamChatlog writing the status before it opens the file.
streamChatlogEager(fs, w, r, date) ==
  LET name == date \o JsonSuffix
      f == IF name \in DOMAIN fs THEN fs[name]
           ELSE [kind |-> "absent", data |-> <<>>]
      eager == [w EXCEPT !.contentType = JsonType, !.wrote = Append(@, 200)]
  IN  IF f.kind = "absent" THEN [err |-> "notexist", w |-> eager, opened |-> {name}]
      ELSE IF f.kind \in {"denied", "nostat"}
      THEN [err |-> "other", w |-> eager, opened |-> {name}]
      ELSE [err |-> "", w |-> [eager EXCEPT !.body = [kind |-> "bytes", data |-> f.data]],
            opened |-> {name}]

\* streamChatlog: [err, w, opened], err being "" (nil), "notexist" or
\* "other", opened the names passed to os.Open.
streamChatlog(fs, w, r, date) ==
  LET name == date \o JsonSuffix
      f == IF name \in DOMAIN fs THEN fs[name]
           ELSE [kind |-> "absent", data |-> <<>>]
  IN  IF f.kind = "absent" THEN [err |-> "notexist", w |-> w, opened |-> {name}]
      ELSE IF f.kind \in {"denied", "nostat"}
      THEN [err |-> "other", w |-> w, opened |-> {name}]
      ELSE [err |-> "",
            w |-> ServeContent([w EXCEPT !.contentType = JsonType], r, f.data),
            opened |-> {name}]

\* handleChatlog: [w, opened]
handleChatlog(fs, r) ==
  IF r.Method # "GET"
  THEN [w |-> methodNotAllowed(NoResponse, "GET"), opened |-> {}]
  ELSE LET d == extractDate(r)
       IN  IF ~d.ok THEN [w |-> writeError(NoResponse, 400), opened |-> {}]
           ELSE LET s == streamChatlog(fs, NoResponse, r, d.date)
                IN  IF s.err = "notexist"
                    THEN [w |-> writeError(s.w, 404), opened |-> s.opened]
                    ELSE IF s.err = "other"
                    THEN [w |-> writeError(s.w, 500), opened |-> s.opened]
                    ELSE [w |-> s.w, opened |-> s.opened]

\* ServeHTTP: the mux redirects a path that is not clean, and serves the
\* others with the handler registered for it or with NotFound.
ServeHTTP(fs, r) ==
  IF cleanPath(r.Path) # r.Path
  THEN [w |-> [NoResponse EXCEPT !.wrote = <<301>>, !.location = cleanPath(r.Path),
                                 !.body = [kind |-> "text", data |-> <<>>]],
        opened |-> {}]
  ELSE IF route(r.Path) = "chatlog" THEN handleChatlog(fs, r)
  ELSE IF route(r.Path) = "health"
  THEN [w |-> [NoResponse EXCEPT !.wrote = <<200>>, !.contentType = JsonType,
                                 !.body = [kind |-> "health", data |-> <<>>]],
        opened |-> {}]
  ELSE [w |-> [NoResponse EXCEPT !.wrote = <<404>>,
                                 !.body = [kind |-> "text", data |-> <<>>]],
        opened |-> {}]

\* The status the client receives.
StatusOf(w) == IF w.wrote = <<>> THEN 200 ELSE w.wrote[1]

\* The requests the model sends.  The paths: the route alone and with a
\* slash, a date, the date and a slash, another date, a day no month has, a
\* date out of the layout, a date written with slashes, "..", a doubled
\* slash, a path beside the route, the health check.  The values of the
\* parameter date: none, a date, the date in spaces, another date, a date
\* written with slashes, no date.
Requests ==
  LET Paths ==
        {<<47, 97, 112, 105, 47, 118, 49, 47, 99, 104, 97, 116, 108, 111, 103, 115>>,
         <<47, 97, 112, 105, 47, 118, 49, 47, 99, 104, 97, 116, 108, 111, 103, 115, 47>>,
         <<47, 97, 112, 105, 47, 118, 49, 47, 99, 104, 97, 116, 108, 111, 103, 115, 47, 50, 48, 50, 53, 45, 48, 57, 45, 50, 53>>,
         <<47, 97, 112, 105, 47, 118, 49, 47, 99, 104, 97, 116, 108, 111, 103, 115, 47, 50, 48, 50, 53, 45, 48, 57, 45, 50, 53, 47>>,
         <<47, 97, 112, 105, 47, 118, 49, 47, 99, 104, 97, 116, 108, 111, 103, 115, 47, 50, 48, 50, 53, 45, 48, 57, 45, 50, 54>>,
         <<47, 97, 112, 105, 47, 118, 49, 47, 99, 104, 97, 116, 108, 111, 103, 115, 47, 50, 48, 50, 53, 45, 48, 50, 45, 51, 48>>,
         <<47, 97, 112, 105, 47, 118, 49, 47, 99, 104, 97, 116, 108, 111, 103, 115, 47, 50, 53, 45, 57, 45, 50, 48, 50, 53>>,
         <<47, 97, 112, 105, 47, 118, 49, 47, 99, 104, 97, 116, 108, 111, 103, 115, 47, 50, 48, 50, 53, 47, 48, 57, 47, 50, 53>>,
         <<47, 97, 112, 105, 47, 118, 49, 47, 99, 104, 97, 116, 108, 111, 103, 115, 47, 46, 46, 47, 50, 48, 50, 53, 45, 48, 57, 45, 50, 53>>,
         <<47, 97, 112, 105, 47, 118, 49, 47, 99, 104, 97, 116, 108, 111, 103, 115, 47, 47, 50, 48, 50, 53, 45, 48, 57, 45, 50, 53>>,
         <<47, 97, 112, 105, 47, 118, 49, 47, 99, 104, 97, 116, 108, 111, 103, 115, 120>>,
         <<47, 104, 101, 97, 108, 116, 104, 122>>}
      DateParams ==
        {<<>>,
         <<50, 48, 50, 53, 45, 48, 57, 45, 50, 53>>,
         <<32, 50, 48, 50, 53, 45, 48, 57, 45, 50, 53, 32>>,
         <<50, 48, 50, 53, 45, 48, 57, 45, 50, 54>>,
         <<50, 48, 50, 53, 47, 48, 57, 47, 50, 53>>,
         <<46, 46, 47, 120>>}
  IN  [Method : {"GET", "POST"}, Path : Paths, Date : DateParams,
       Cond : {"", "Range", "IfNoneMatch", "IfMatch"}]

\* The states of the data directory: two names, each a file of one of two
\* contents, absent, unreadable, or not to be stat-ed.
FileSystems ==
  LET names == {<<50, 48, 50, 53, 45, 48, 57, 45, 50, 53, 46, 106, 115, 111, 110>>,
                <<50, 48, 50, 53, 45, 48, 57, 45, 50, 54, 46, 106, 115, 111, 110>>}
      files == {[kind |-> "file", data |-> <<123, 125>>],
                [kind |-> "file", data |-> <<123, 34, 97, 34, 58, 49, 125>>],
                [kind |-> "absent", data |-> <<>>],
                [kind |-> "denied", data |-> <<>>],
                [kind |-> "nostat", data |-> <<>>]}
  IN  [names -> files]

\* No request served yet.
ApiIdle ==
  [fs |-> << >>, req |-> [Method |-> "", Path |-> <<>>, Date |-> <<>>, Cond |-> ""],
   w |-> NoResponse, opened |-> {}, served |-> FALSE]

(***************************************************************************)
(* the report command (cmd/report, main)                                   *)
(*                                                                         *)
(* The raw file of the day is [kind, ver]: "absent", a "file" holding the  *)
(* messages the chatlog service returned when its data were at version     *)
(* ver, or "garbage", a file that is not JSON.  A run of the command       *)
(* leaves in last what it did: whether it called FetchDay, whether it      *)
(* renamed a new raw file into place, the raw file it found, the version   *)
(* BuildSummary was given (-1 when the run ended before line 121), and how *)
(* the run ended.                                                          *)
(***************************************************************************)

\* How many times the command is run, and how many times the data of the
\* service change.
MaxRuns == 3

MaxVersion == 2

NoRun ==
  [force |-> FALSE, fetched |-> FALSE, renamed |-> FALSE, found |-> [kind |-> "absent", ver |-> 0],
   summarized |-> -1, exit |-> "none"]

\* A fileExists that finds nothing.
fileExistsNever(raw) == FALSE

\* fileExists: os.Stat returns no error.
fileExists(raw) == raw.kind # "absent"

\* main from line 86 to line 121, on the raw file and the data of the
\* service, with the outcomes of FetchDay and of writeJSON: [raw, last].
reportMain(raw, service, force, fetchOK, writeOK) ==
  LET ran == [NoRun EXCEPT !.force = force, !.found = raw]
  IN  IF fileExists(raw) /\ ~force
      THEN IF raw.kind = "file"
           THEN [raw |-> raw,
                 last |-> [ran EXCEPT !.summarized = raw.ver, !.exit = "ok"]]
           ELSE [raw |-> raw, last |-> [ran EXCEPT !.exit = "read raw json failed"]]
      ELSE IF ~fetchOK
      THEN [raw |-> raw,
            last |-> [ran EXCEPT !.fetched = TRUE, !.exit = "fetch failed"]]
      ELSE IF ~writeOK
      THEN [raw |-> raw,
            last |-> [ran EXCEPT !.fetched = TRUE, !.exit = "write raw json failed"]]
      ELSE [raw |-> [kind |-> "file", ver |-> service],
            last |-> [ran EXCEPT !.fetched = TRUE, !.renamed = TRUE,
                                 !.summarized = service, !.exit = "ok"]]

RunIdle ==
  [raw |-> [kind |-> "absent", ver |-> 0], service |-> 0, runs |-> 0, last |-> NoRun]

(***************************************************************************)
(* the state machine                                                       *)
(***************************************************************************)

\* time.Local: UTC, or UTC+8
Zones == {0, 28800}

InitOn(names, zones) ==
  /\ corpus \in names
  /\ tz \in zones
  /\ msgs = <<>>
  /\ loop = InitLoop
  /\ pc = "loop"
  /\ sum = SummaryZero
  /\ sum2 = SummaryZero
  /\ api = ApiIdle
  /\ run = RunIdle

\* One iteration of the loop of line 103, on the next message of the input.
ProcessMessage(m) ==
  /\ pc = "loop"
  /\ Len(msgs) < (IF corpus = "hours" THEN MaxChain ELSE MaxMsgs)
  /\ msgs' = Append(msgs, m)
  /\ loop' = Step(loop, m, Len(msgs), tz)
  /\ UNCHANGED <<corpus, tz, pc, sum, sum2, api, run>>

\* The input ends: lines 218-290, and BuildSummary returns.
Finish ==
  /\ pc = "loop"
  /\ pc' = "done"
  /\ \E links \in topKKeys(loop.linkCount, 5) :
       sum' = summaryOf(loop, Len(msgs), links)
  /\ UNCHANGED <<corpus, tz, msgs, loop, sum2, api, run>>

\* BuildSummary is called again on the same messages.
BuildAgain ==
  /\ pc = "done"
  /\ pc' = "again"
  /\ sum2' \in BuildSummary(msgs, tz)
  /\ UNCHANGED <<corpus, tz, msgs, loop, sum, api, run>>

Next ==
  \/ \E m \in CorpusOf(corpus) : ProcessMessage(m)
  \/ Finish

NextTwice ==
  \/ Next
  \/ BuildAgain

\* One call of BuildSummary, on every input of up to MaxMsgs messages of a corpus.
Spec == InitOn({"ledger", "text", "vibes", "time"}, Zones) /\ [][Next]_vars

SpecLedger == InitOn({"ledger"}, {0}) /\ [][Next]_vars

SpecText == InitOn({"text"}, {0}) /\ [][Next]_vars

SpecVibes == InitOn({"vibes"}, {0}) /\ [][Next]_vars

SpecTime == InitOn({"time"}, Zones) /\ [][Next]_vars

\* Inputs of flagged questions.
SpecAsk == InitOn({"ask"}, {0}) /\ [][Next]_vars

\* Inputs of up to MaxChain questions that answer one another.
SpecHours == InitOn({"hours"}, {0}) /\ [][Next]_vars

\* Two calls of BuildSummary on the same input.
SpecTwice == InitOn({"text"}, {0}) /\ [][NextTwice]_vars

\* The states in which BuildSummary is not called.
IdleSummary ==
  /\ corpus = "text"
  /\ tz = 0
  /\ msgs = <<>>
  /\ loop = InitLoop
  /\ pc = "idle"
  /\ sum = SummaryZero
  /\ sum2 = SummaryZero

InitApi ==
  /\ IdleSummary
  /\ api \in {[ApiIdle EXCEPT !.fs = fs] : fs \in FileSystems}
  /\ run = RunIdle

\* The server answers one request.
Serve(r) ==
  /\ pc = "idle"
  /\ ~api.served
  /\ LET a == ServeHTTP(api.fs, r)
     IN  api' = [api EXCEPT !.req = r, !.w = a.w, !.opened = a.opened,
                            !.served = TRUE]
  /\ UNCHANGED <<corpus, tz, msgs, loop, pc, sum, sum2, run>>

\* ServeHTTP returns: the server keeps nothing of the request.
Return ==
  /\ pc = "idle"
  /\ api.served
  /\ api' = [ApiIdle EXCEPT !.fs = api.fs]
  /\ UNCHANGED <<corpus, tz, msgs, loop, pc, sum, sum2, run>>

NextApi == (\E r \in Requests : Serve(r)) \/ Return

SpecApi == InitApi /\ [][NextApi]_vars

InitReport ==
  /\ IdleSummary
  /\ api = ApiIdle
  /\ run \in {[RunIdle EXCEPT !.raw = raw] :
                raw \in {[kind |-> "absent", ver |-> 0], [kind |-> "file", ver |-> 0],
                         [kind |-> "garbage", ver |-> 0]}}

\* One run of the report command for the day.
RunReport(force, fetchOK, writeOK) ==
  /\ pc = "idle"
  /\ run.runs < MaxRuns
  /\ LET m == reportMain(run.raw, run.service, force, fetchOK, writeOK)
     IN  run' = [run EXCEPT !.raw = m.raw, !.last = m.last, !.runs = @ + 1]
  /\ UNCHANGED <<corpus, tz, msgs, loop, pc, sum, sum2, api>>

\* Between two runs the group goes on talking: the service has new data.
ServiceChanges ==
  /\ pc = "idle"
  /\ run.service < MaxVersion
  /\ run' = [run EXCEPT !.service = @ + 1]
  /\ UNCHANGED <<corpus, tz, msgs, loop, pc, sum, sum2, api>>

NextReport ==
  \/ \E force, fetchOK, writeOK \in BOOLEAN : RunReport(force, fetchOK, writeOK)
  \/ ServiceChanges

SpecReport == InitReport /\ [][NextReport]_vars

(***************************************************************************)
(* properties                                                              *)
(***************************************************************************)

\* The k-th smallest element of a set of numbers.
Kth(S, k) == CHOOSE i \in S : Cardinality({j \in S : j < i}) = k - 1

\* item is the report of ledger entry q.
ItemOf(item, q) ==
  /\ item.Questioner = senderDisplay(q.Message)
  /\ item.AskedAt = q.AskedAt
  /\ item.Mentions = q.Mentions
  /\ item.Question = trimQuestionText(q.Message)

\* items reports exactly the entries of the ledger at the indices S, in order.
ListsInOrder(items, S) ==
  /\ Len(items) = Cardinality(S)
  /\ \A k \in 1..Len(items) : ItemOf(items[k], loop.questions[Kth(S, k)])

\* C1: when BuildSummary has returned, the resolved entries of the ledger are
\* the Resolved list and the unresolved ones the Outstanding list, each in
\* the order the entries were created, so the two lengths add up to the
\* number of entries.
C1_ReplyDebtPartition ==
  pc = "done" =>
    LET qs == loop.questions
        rd == sum.ReplyDebt
    IN  /\ Len(rd.Outstanding) + Len(rd.Resolved) = Len(qs)
        /\ ListsInOrder(rd.Resolved, {i \in 1..Len(qs) : qs[i].Resolved})
        /\ ListsInOrder(rd.Outstanding, {i \in 1..Len(qs) : ~qs[i].Resolved})

\* C1 witness: an entry still open, with no asked-at time, was created before
\* an entry that is resolved.
C1_Witness ==
  /\ pc = "done"
  /\ Len(loop.questions) >= 2
  /\ \E i, j \in 1..Len(loop.questions) :
       /\ i < j
       /\ ~loop.questions[i].Resolved /\ IsZero(loop.questions[i].AskedAt)
       /\ loop.questions[j].Resolved
  /\ Len(sum.ReplyDebt.Outstanding) >= 1
  /\ Len(sum.ReplyDebt.Resolved) >= 1

\* C2: a step leaves every resolved ledger entry as it is, at its place.
C2_ResolvedIsFinal ==
  [][\A i \in 1..Len(loop.questions) :
       loop.questions[i].Resolved =>
         /\ Len(loop'.questions) >= i
         /\ loop'.questions[i] = loop.questions[i]]_vars

\* Message k of the input satisfies the matching rule for entry q and is not
\* passed over for its time or index.
WouldMatch(k, q) ==
  LET mt == messageTime(msgs[k], tz)
  IN  /\ k - 1 > q.Index
      /\ ~IsZero(mt)
      /\ ~(~IsZero(q.AskedAt) /\ Before(mt, q.AskedAt))
      /\ matchesQuestionResponse(msgs[k], q, messageText(msgs[k]))

\* C2 witness: an entry is resolved, and two later messages from different
\* senders at different times both satisfy the matching rule for it.
C2_Witness ==
  \E i \in 1..Len(loop.questions) : \E j, k \in 1..Len(msgs) :
    /\ loop.questions[i].Resolved
    /\ j < k
    /\ WouldMatch(j, loop.questions[i])
    /\ WouldMatch(k, loop.questions[i])
    /\ senderDisplay(msgs[j]) # senderDisplay(msgs[k])
    /\ messageTime(msgs[j], tz) # messageTime(msgs[k], tz)

\* C3: two calls of BuildSummary on the same messages return the same
\* Summary.
C3_SameSummaryTwice == pc = "again" => sum2 = sum

\* The input of C4: two messages, a trackable question of A at a known time,
\* then a message of B at a later known time that carries a reference naming
\* A's message.
C4_Input ==
  /\ pc = "done"
  /\ Len(msgs) = 2
  /\ shouldTrackQuestion(msgs[1], messageText(msgs[1]))
  /\ ~IsZero(messageTime(msgs[1], tz))
  /\ ~IsZero(messageTime(msgs[2], tz))
  /\ messageTime(msgs[2], tz).sec > messageTime(msgs[1], tz).sec
  /\ msgs[2].Reference.present
  /\ msgs[2].Reference.SenderName = senderDisplay(msgs[1])
  /\ senderDisplay(msgs[2]) # senderDisplay(msgs[1])
  /\ msgs[1].Mentions = <<>>
  /\ msgs[2].Mentions = <<>>

\* d of C4, in seconds
C4_Delay == messageTime(msgs[2], tz).sec - messageTime(msgs[1], tz).sec

\* C4 as stated: on such an input there is one resolved item, nothing
\* outstanding, and responseMinutes and avgResponseMinutes are d in minutes
\* (in tenths of a minute: 6 * tenths = d seconds).
C4_AsStated ==
  C4_Input =>
    /\ Len(sum.ReplyDebt.Resolved) = 1
    /\ Len(sum.ReplyDebt.Outstanding) = 0
    /\ 6 * sum.ReplyDebt.Resolved[1].ResponseMinutes = C4_Delay
    /\ sum.ReplyDebt.AvgResponseMinutes = sum.ReplyDebt.Resolved[1].ResponseMinutes

\* What the amended C4 asks of the input besides C4_Input: the two senders
\* normalize to different non-empty identities and B's message does not
\* itself open a question.
C4_InputAmended ==
  /\ C4_Input
  /\ normalizeName(senderDisplay(msgs[1])) # <<>>
  /\ normalizeName(senderDisplay(msgs[2])) # <<>>
  /\ normalizeName(senderDisplay(msgs[2])) # normalizeName(senderDisplay(msgs[1]))
  /\ ~shouldTrackQuestion(msgs[2], messageText(msgs[2]))

\* C4: on such an input there is one resolved item, nothing outstanding, and
\* responseMinutes and avgResponseMinutes are both d in minutes rounded to
\* one decimal, halves up: the number t of tenths with 6t - 3 <= d <= 6t + 2.
C4_RoundedDelay ==
  C4_InputAmended =>
    /\ Len(sum.ReplyDebt.Resolved) = 1
    /\ Len(sum.ReplyDebt.Outstanding) = 0
    /\ LET t == sum.ReplyDebt.Resolved[1].ResponseMinutes
       IN  6 * t - 3 <= C4_Delay /\ C4_Delay <= 6 * t + 2
    /\ sum.ReplyDebt.AvgResponseMinutes = sum.ReplyDebt.Resolved[1].ResponseMinutes

\* C4 witness: such an input with a delay that is no whole number of tenths.
C4_Witness == C4_InputAmended /\ C4_Delay % 6 # 0

\* How many fields of text are the link u, duplicates counted.
TimesInText(text, u) ==
  Cardinality({i \in 1..Len(scanURLs(Fields(text))) : scanURLs(Fields(text))[i] = u})

\* How many entries of the sequence seq equal x.
TimesIn(seq, x) == Cardinality({i \in 1..Len(seq) : seq[i] = x})

\* A single message with no share payload whose text holds the link u twice.
C5_Input(u) ==
  /\ pc = "done"
  /\ Len(msgs) = 1
  /\ ~msgs[1].Share.present
  /\ TimesInText(messageText(msgs[1]), u) = 2

\* C5 as stated: the link is counted twice and listed once.
C5_AsStated ==
  \A u \in DOMAIN loop.linkCount :
    C5_Input(u) => loop.linkCount[u] = 2 /\ TimesIn(sum.TopLinks, u) = 1

\* C5: a message counts each link of its text once however often the text
\* repeats it, and its share link once more; so the count of a link is the
\* number of messages with it in the text plus the number of messages that
\* share it, and TopLinks lists a link at most once.
C5_CountedOncePerText ==
  /\ \A u \in DOMAIN loop.linkCount :
       loop.linkCount[u] =
         Cardinality({i \in 1..Len(msgs) : TimesInText(messageText(msgs[i]), u) >= 1})
         + Cardinality({i \in 1..Len(msgs) :
                          msgs[i].Share.present /\ msgs[i].Share.URL = u})
  /\ pc = "done" =>
       /\ \A u \in DOMAIN loop.linkCount : TimesIn(sum.TopLinks, u) <= 1
       /\ \A u \in DOMAIN loop.linkCount : C5_Input(u) =>
            loop.linkCount[u] = 1 /\ TimesIn(sum.TopLinks, u) = 1

\* C5 witness: the single message whose text is the same link twice.
C5_Witness == \E u \in DOMAIN loop.linkCount : C5_Input(u)

\* The timestamp the aggregator reads is derivable: the first non-zero of
\* Timestamp and CreateTime is positive.
Derivable(m) ==
  TsPositive(m.Timestamp) \/ (TsIsZero(m.Timestamp) /\ TsPositive(m.CreateTime))

\* The hour of day of a message with a derivable timestamp.
HourOfMessage(m) ==
  Hour(UnixLocal(TsSeconds(IF TsIsZero(m.Timestamp) THEN m.CreateTime
                           ELSE m.Timestamp), tz))

RECURSIVE SumSlots(_, _)
SumSlots(hist, h) == IF h < 0 THEN 0 ELSE hist[h] + SumSlots(hist, h - 1)

\* C6: every slot of the histogram holds the number of messages read so far
\* that have a derivable timestamp in that hour, so a message adds one to at
\* most one slot, the slots sum to at most the number of messages, and to
\* just that number when every message has a derivable timestamp; the
\* Summary returns this histogram beside TotalMessages.
C6_HistogramSum ==
  /\ \A h \in 0..23 :
       loop.HourlyHistogram[h] =
         Cardinality({i \in 1..Len(msgs) :
                        Derivable(msgs[i]) /\ HourOfMessage(msgs[i]) = h})
  /\ SumSlots(loop.HourlyHistogram, 23) <= Len(msgs)
  /\ (\A i \in 1..Len(msgs) : Derivable(msgs[i])) =>
       SumSlots(loop.HourlyHistogram, 23) = Len(msgs)
  /\ pc = "done" =>
       /\ sum.HourlyHistogram = loop.HourlyHistogram
       /\ sum.TotalMessages = Len(msgs)

\* C6 witness: three messages, one of them with no timestamp at all and
\* another with no derivable one, and one slot incremented.
C6_Witness ==
  /\ pc = "done"
  /\ Len(msgs) = 3
  /\ \E i \in 1..3 : TsIsZero(msgs[i].Timestamp) /\ TsIsZero(msgs[i].CreateTime)
  /\ \E i \in 1..3 : ~TsIsZero(msgs[i].Timestamp) /\ ~Derivable(msgs[i])
  /\ SumSlots(sum.HourlyHistogram, 23) = 1

\* The non-empty texts of the messages, and how many of them contain name.
NonEmptyTexts == {i \in 1..Len(msgs) : messageText(msgs[i]) # <<>>}

TextsWith(name) ==
  Cardinality({i \in NonEmptyTexts : Contains(messageText(msgs[i]), name)})

\* One of the two names is a substring of the other.
Related(a, b) == Contains(a, b) \/ Contains(b, a)

\* The place of a topic name in the keyword list.
RankOf(name) == CHOOSE p \in 1..Len(sum.Keywords) : sum.Keywords[p].Key = name

\* C7: there are at most 5 topics; the Count of each is the number of
\* non-empty texts that contain its name and is at least 3; no topic name is
\* a substring of another; and the topics are the keywords accepted greedily
\* in rank order: a keyword that is no topic has fewer than 3 texts, or is
\* related to a topic of earlier rank, or comes after the fifth topic.
C7_Topics ==
  pc = "done" =>
    LET kw == sum.Keywords
        tp == sum.Topics
        names == {tp[j].Name : j \in 1..Len(tp)}
    IN  /\ Len(tp) <= 5
        /\ \A j \in 1..Len(tp) :
             /\ tp[j].Count >= 3
             /\ tp[j].Count = TextsWith(tp[j].Name)
             /\ \E p \in 1..Len(kw) : kw[p].Key = tp[j].Name
        /\ \A i, j \in 1..Len(tp) :
             /\ i # j => ~Contains(tp[i].Name, tp[j].Name)
             /\ i < j => RankOf(tp[i].Name) < RankOf(tp[j].Name)
        /\ \A p \in 1..Len(kw) :
             kw[p].Key \notin names =>
               \/ TextsWith(kw[p].Key) < 3
               \/ \E j \in 1..Len(tp) :
                    RankOf(tp[j].Name) < p /\ Related(tp[j].Name, kw[p].Key)
               \/ Len(tp) = 5 /\ RankOf(tp[5].Name) < p

\* C7 witness: a keyword found in three texts is no topic because it
\* contains a topic of earlier rank, and another because five topics were
\* already accepted.
C7_Witness ==
  /\ pc = "done"
  /\ Len(sum.Topics) = 5
  /\ \E p \in 1..Len(sum.Keywords) : \E j \in 1..Len(sum.Topics) :
       /\ TextsWith(sum.Keywords[p].Key) >= 3
       /\ RankOf(sum.Topics[j].Name) < p
       /\ sum.Keywords[p].Key # sum.Topics[j].Name
       /\ Contains(sum.Keywords[p].Key, sum.Topics[j].Name)
  /\ \E p \in 1..Len(sum.Keywords) :
       /\ TextsWith(sum.Keywords[p].Key) >= 3
       /\ \A j \in 1..Len(sum.Topics) :
            ~Related(sum.Keywords[p].Key, sum.Topics[j].Name)

\* a ranks before b: greater count, or equal count and smaller key.
Outranks(ca, ka, cb, kb) == ca > cb \/ (ca = cb /\ StrLess(ka, kb))

\* C8: Keywords has at most 20 entries, each a token with its count, with
\* distinct keys, ordered by count descending and key ascending among equal
\* counts; it holds every token when there are at most 20, and otherwise
\* every entry outranks every token left out.
C8_Keywords ==
  pc = "done" =>
    LET kw == sum.Keywords
        tc == loop.tokenCount
        listed == {kw[i].Key : i \in 1..Len(kw)}
    IN  /\ Len(kw) <= 20
        /\ \A i \in 1..Len(kw) :
             kw[i].Key \in DOMAIN tc /\ kw[i].Count = tc[kw[i].Key]
        /\ \A i, j \in 1..Len(kw) :
             i < j => Outranks(kw[i].Count, kw[i].Key, kw[j].Count, kw[j].Key)
        /\ Cardinality(listed) = Len(kw)
        /\ Cardinality(DOMAIN tc) <= 20 => listed = DOMAIN tc
        /\ Cardinality(DOMAIN tc) > 20 => Len(kw) = 20
        /\ \A k \in DOMAIN tc \ listed : \A i \in 1..Len(kw) :
             Outranks(kw[i].Count, kw[i].Key, tc[k], k)

\* C8 witness: more than 20 tokens, the one left out as frequent as an entry
\* of the list, and two counts in the list.
C8_Witness ==
  /\ pc = "done"
  /\ Cardinality(DOMAIN loop.tokenCount) > 20
  /\ \E i, j \in 1..Len(sum.Keywords) : sum.Keywords[i].Count # sum.Keywords[j].Count
  /\ \E k \in DOMAIN loop.tokenCount :
       /\ \A i \in 1..Len(sum.Keywords) : sum.Keywords[i].Key # k
       /\ loop.tokenCount[k] = sum.Keywords[Len(sum.Keywords)].Count

\* C9: Score is in 0..100 and the four sub-scores are in [0, 1], that is
\* 0..100 hundredths.
C9_VibesBounds ==
  pc = "done" =>
    LET g == sum.GroupVibes
    IN  /\ g.Score \in 0..100
        /\ g.Activity \in 0..100
        /\ g.Sentiment \in 0..100
        /\ g.InfoDensity \in 0..100
        /\ g.Controversy \in 0..100

\* C9 witness: messages whose positive sentiment sums to more than their
\* number, and whose question, mention and exclaim flags do too.
C9_Witness ==
  /\ pc = "done"
  /\ Len(msgs) > 0
  /\ loop.analytics.sentimentPos > 2 * Len(msgs)
  /\ loop.analytics.questionMsg + loop.analytics.mentionMsg
       + loop.analytics.exclaimMsg > Len(msgs)

\* C10: for no messages the Summary has TotalMessages 0, UniqueSenders 0, no
\* topics, a histogram of zeros, a GroupVibes of score 0, sub-scores 0, no
\* tone and no reasons, and a ReplyDebt with nothing outstanding, nothing
\* resolved, average 0 and no best hours.
C10_EmptyInput ==
  (pc = "done" /\ msgs = <<>>) =>
    /\ sum.TotalMessages = 0
    /\ sum.UniqueSenders = 0
    /\ sum.Topics = <<>>
    /\ \A h \in 0..23 : sum.HourlyHistogram[h] = 0
    /\ sum.GroupVibes = [Score |-> 0, Activity |-> 0, Sentiment |-> 0,
                         InfoDensity |-> 0, Controversy |-> 0, Tone |-> "",
                         Reasons |-> <<>>]
    /\ sum.ReplyDebt = [Outstanding |-> <<>>, Resolved |-> <<>>,
                        AvgResponseMinutes |-> 0, BestResponseHours |-> <<>>]

\* C10 witness: BuildSummary has returned for no messages.
C10_Witness == pc = "done" /\ msgs = <<>>

\* C11: for no messages every list of the Summary is empty: Highlights,
\* TopSenders, TopLinks, Keywords and Topics.
C11_EmptyContainers ==
  (pc = "done" /\ msgs = <<>>) =>
    /\ sum.Highlights = <<>>
    /\ sum.TopSenders = <<>>
    /\ sum.TopLinks = <<>>
    /\ sum.Keywords = <<>>
    /\ sum.Topics = <<>>

\* C12: PeakHour is 0 for a histogram of zeros and otherwise the lowest hour
\* whose count is the greatest; and when the input is not empty and every
\* message has a derivable timestamp in one hour h, PeakHour is h, slot h
\* holds TotalMessages and every other slot holds 0.
C12_PeakHour ==
  pc = "done" =>
    LET hist == sum.HourlyHistogram
        p == sum.PeakHour
    IN  /\ p \in 0..23
        /\ (\A g \in 0..23 : hist[g] = 0) => p = 0
        /\ \A g \in 0..23 : hist[g] <= hist[p]
        /\ \A g \in 0..23 : g < p => hist[g] < hist[p]
        /\ \A h \in 0..23 :
             (/\ Len(msgs) > 0
              /\ \A i \in 1..Len(msgs) :
                   Derivable(msgs[i]) /\ HourOfMessage(msgs[i]) = h) =>
               /\ p = h
               /\ hist[h] = sum.TotalMessages
               /\ \A g \in 0..23 : g # h => hist[g] = 0

\* C12 witness: three messages, not all the same, in one hour that is not 0.
C12_Witness ==
  /\ pc = "done"
  /\ Len(msgs) = 3
  /\ msgs[1] # msgs[2]
  /\ \E h \in 1..23 : \A i \in 1..3 :
       Derivable(msgs[i]) /\ HourOfMessage(msgs[i]) = h

\* Message k is the only message after entry q that satisfies the matching
\* rule for q, and it has no time.
OnlyTimelessMatch(k, q) ==
  /\ k - 1 > q.Index
  /\ IsZero(messageTime(msgs[k], tz))
  /\ matchesQuestionResponse(msgs[k], q, messageText(msgs[k]))
  /\ \A j \in 1..Len(msgs) :
       (j # k /\ j - 1 > q.Index) =>
         ~matchesQuestionResponse(msgs[j], q, messageText(msgs[j]))

\* C13: an entry whose only matching later message has no time is resolved,
\* with response hour -1 and no latency.
C13_TimelessReplyResolves ==
  \A i \in 1..Len(loop.questions) : \A k \in 1..Len(msgs) :
    OnlyTimelessMatch(k, loop.questions[i]) =>
      /\ loop.questions[i].Resolved
      /\ loop.questions[i].ResponseHour = -1
      /\ loop.questions[i].ResponseMinutes = 0

\* The dates the model has files for: "2025-09-25" and "2025-09-26".
DaysOnDisk ==
  {<<50, 48, 50, 53, 45, 48, 57, 45, 50, 53>>,
   <<50, 48, 50, 53, 45, 48, 57, 45, 50, 54>>}

\* The last request was GET /api/v1/chatlogs/{d}, and <dataDir>/{d}.json is
\* a file.
GetOfExisting(d) ==
  /\ api.served
  /\ api.req.Method = "GET"
  /\ api.req.Path = ChatlogsRoute \o <<47>> \o d
  /\ d \o JsonSuffix \in DOMAIN api.fs
  /\ api.fs[d \o JsonSuffix].kind = "file"

\* The response is 200 with the bytes of {d}.json as JSON.
WholeFile(d) ==
  /\ StatusOf(api.w) = 200
  /\ api.w.wrote = <<200>>
  /\ api.w.body = [kind |-> "bytes", data |-> api.fs[d \o JsonSuffix].data]
  /\ api.w.contentType = JsonType

\* C14, as stated: every GET of /api/v1/chatlogs/{date} for a valid date
\* whose file exists is answered with 200, the file's bytes and the JSON
\* content type.
C14_AsStated == \A d \in DaysOnDisk : GetOfExisting(d) => WholeFile(d)

\* C14, amended: a GET of /api/v1/chatlogs/{date} for a valid date whose file
\* exists, carrying no Range and no conditional header, is answered with 200,
\* the file's bytes and Content-Type application/json; charset=utf-8.
C14_PlainGet ==
  \A d \in DaysOnDisk : (GetOfExisting(d) /\ api.req.Cond = "") => WholeFile(d)

C14_Witness ==
  \E d \in DaysOnDisk :
    /\ GetOfExisting(d) /\ api.req.Cond = ""
    /\ Len(api.w.body.data) > 2

\* The last request was a GET of the chatlogs endpoint naming the day d, in
\* the path or, the path naming none, in the parameter date.
GetOfDay(d) ==
  /\ api.served
  /\ api.req.Method = "GET"
  /\ \/ api.req.Path \in {ChatlogsRoute \o <<47>> \o d, ChatlogsRoute \o <<47>> \o d \o <<47>>}
     \/ /\ api.req.Path \in {ChatlogsRoute, ChatlogsRoute \o <<47>>}
        /\ api.req.Date \in {d, <<32>> \o d \o <<32>>}

\* What {d}.json is in the data directory.
KindOf(d) ==
  IF d \o JsonSuffix \in DOMAIN api.fs THEN api.fs[d \o JsonSuffix].kind ELSE "absent"

\* The response is the JSON error object with the status given and no other.
ErrorWith(status) ==
  /\ StatusOf(api.w) = status
  /\ api.w.wrote = <<status>>
  /\ api.w.body.kind = "error"
  /\ api.w.contentType = JsonType

\* C15: a GET with a valid date whose file does not exist is answered 404
\* with a JSON error body; any other failure of opening or stat-ing the file
\* is answered 500 with a JSON error body; in neither case is 200 written
\* first.
C15_MissingOrUnreadable ==
  \A d \in DaysOnDisk :
    GetOfDay(d) =>
      /\ KindOf(d) = "absent" => ErrorWith(404)
      /\ KindOf(d) \in {"denied", "nostat"} => ErrorWith(500)
      /\ KindOf(d) # "file" => 200 \notin Range(api.w.wrote)

C15_Witness ==
  \E d \in DaysOnDisk :
    /\ GetOfDay(d)
    /\ api.req.Path = ChatlogsRoute
    /\ KindOf(d) = "nostat"
    /\ ErrorWith(500)

\* The last request went to the handler of the chatlogs endpoint: its path is
\* the route or lies under it, and is the path the mux would clean it to.
ToChatlogs ==
  /\ api.served
  /\ api.req.Path = ChatlogsRoute \/ HasPrefix(api.req.Path, ChatlogsRoute \o <<47>>)
  /\ cleanPath(api.req.Path) = api.req.Path

\* C16: a GET of the chatlogs endpoint whose date is missing, contains a
\* slash or is no YYYY-MM-DD date is answered 400 and no file is opened; a
\* request of another method is answered 405 with Allow: GET, whatever its
\* date, and no file is opened.
C16_RejectedBeforeOpen ==
  ToChatlogs =>
    /\ (api.req.Method = "GET" /\ \A d \in DaysOnDisk : ~GetOfDay(d)) =>
         ErrorWith(400) /\ api.opened = {}
    /\ api.req.Method # "GET" =>
         ErrorWith(405) /\ api.w.allow = "GET" /\ api.opened = {}

C16_Witness ==
  /\ ToChatlogs
  /\ api.req.Method = "GET"
  /\ Len(api.req.Path) = Len(ChatlogsRoute) + 11
  /\ \A d \in DaysOnDisk : ~GetOfDay(d)
  /\ api.req.Date \in DaysOnDisk
  /\ ErrorWith(400)

\* d is what follows /api/v1/chatlogs in the path p, the slashes around it
\* apart.
SegmentIs(p, d) ==
  /\ d # <<>>
  /\ d[1] # 47 /\ d[Len(d)] # 47
  /\ p \in {ChatlogsRoute \o <<47>> \o d, ChatlogsRoute \o <<47>> \o d \o <<47>>}

\* C17: extractDate returns the date of the path after /api/v1/chatlogs when
\* there is one, whatever the query says, and the parameter date only when
\* the path holds none; the two forms give the same string for the same
\* valid date.  Of the dates the model sends, those of DaysOnDisk are valid.
C17_PathThenQuery ==
  api.served =>
    LET p == api.req.Path
        got == extractDate(api.req)
    IN  /\ \A i, j \in 1..Len(p) :
             SegmentIs(p, SubSeq(p, i, j)) =>
               /\ got.ok <=> SubSeq(p, i, j) \in DaysOnDisk
               /\ got.ok => got.date = SubSeq(p, i, j)
        /\ p \in {ChatlogsRoute, ChatlogsRoute \o <<47>>} =>
             /\ got.ok <=>
                  \E d \in DaysOnDisk : api.req.Date \in {d, <<32>> \o d \o <<32>>}
             /\ got.ok => \E d \in DaysOnDisk :
                            got.date = d /\ api.req.Date \in {d, <<32>> \o d \o <<32>>}
        /\ \A d \in DaysOnDisk :
             GetOfDay(d) => got = [ok |-> TRUE, date |-> d] /\ api.opened = {d \o JsonSuffix}

C17_Witness ==
  \E d, e \in DaysOnDisk :
    /\ d # e
    /\ api.served
    /\ api.req.Method = "GET"
    /\ SegmentIs(api.req.Path, d)
    /\ api.req.Date = e
    /\ extractDate(api.req) = [ok |-> TRUE, date |-> d]
    /\ api.opened = {d \o JsonSuffix}

\* C18: a run of the report command that finds the raw file of the day and
\* is not forced calls no fetch and leaves the raw file as it is; a run
\* fetches, and replaces the raw file, only if the file is absent or the run
\* is forced; and the summary is computed from what the raw file holds on
\* disk when the run reads it back.
C18_RerunKeepsRaw ==
  [][run'.runs = run.runs + 1 =>
       /\ (run.raw.kind # "absent" /\ ~run'.last.force) =>
            ~run'.last.fetched /\ run'.raw = run.raw
       /\ run'.last.fetched => run.raw.kind = "absent" \/ run'.last.force
       /\ run'.raw # run.raw => run'.last.fetched /\ run'.last.renamed
       /\ run'.last.summarized # -1 =>
            run'.raw = [kind |-> "file", ver |-> run'.last.summarized]
       /\ run'.last.exit = "ok" <=> run'.last.summarized # -1]_vars

C18_Witness ==
  /\ run.runs >= 2
  /\ ~run.last.force
  /\ ~run.last.fetched
  /\ run.last.exit = "ok"
  /\ run.raw.ver > 0
  /\ run.raw.ver # run.service
  /\ run.last.summarized = run.raw.ver

\* The message m, at input index idx, answers the entry q: it comes later, at
\* a known time not before the question's, from a sender with an identity
\* other than the questioner's, and it replies to the questioner, quotes the
\* question or is quoted by it, mentions the questioner, or is from someone
\* the question mentions.
Answers(m, idx, q) ==
  LET mt == messageTime(m, tz)
      who == normalizeName(senderDisplay(m))
      asker == normalizeName(senderDisplay(q.Message))
      quoted == TrimSpace(m.Reference.Content)
      asked == TrimSpace(q.Message.Content)
  IN  /\ idx > q.Index
      /\ ~IsZero(mt)
      /\ IsZero(q.AskedAt) \/ ~Before(mt, q.AskedAt)
      /\ who # <<>> /\ asker # <<>> /\ who # asker
      /\ \/ m.Reference.present /\ normalizeName(m.Reference.SenderName) = asker
         \/ /\ m.Reference.present
            /\ quoted # <<>> /\ asked # <<>>
            /\ Contains(asked, quoted) \/ Contains(quoted, asked)
         \/ \E n \in Range(m.Mentions) : normalizeName(n) = asker
         \/ \E n \in Range(q.Message.Mentions) : normalizeName(n) = who

\* C19: a step marks an open entry resolved only if its message answers the
\* entry: later index, time not before the asked-at time, another identity
\* than the questioner's, and one of the four links between message and
\* question.  The entry a message opens is open after the step.
C19_ResolvedOnlyByAnswer ==
  [][Len(msgs') = Len(msgs) + 1 =>
       \A i \in 1..Len(loop'.questions) :
         IF i <= Len(loop.questions)
         THEN (~loop.questions[i].Resolved /\ loop'.questions[i].Resolved) =>
                Answers(msgs'[Len(msgs')], Len(msgs), loop.questions[i])
         ELSE ~loop'.questions[i].Resolved]_vars

\* C19 witness: an entry resolved by a message that quotes a part of the
\* question and names no sender in its reference.
C19_Witness ==
  \E i \in 1..Len(loop.questions) : \E k \in 1..Len(msgs) :
    /\ loop.questions[i].Resolved
    /\ Answers(msgs[k], k - 1, loop.questions[i])
    /\ msgs[k].Reference.present
    /\ msgs[k].Reference.SenderName = <<>>
    /\ msgs[k].Mentions = <<>>
    /\ normalizeName(senderDisplay(msgs[k])) \in DOMAIN loop.questions[i].Responders

\* C20: a step marks every open entry its message answers as resolved, and
\* if the message is a trackable question it opens an entry for it as well.
C20_ResolvesAllThenOpens ==
  [][Len(msgs') = Len(msgs) + 1 =>
       LET m == msgs'[Len(msgs')]
       IN  /\ \A i \in 1..Len(loop.questions) :
                (~loop.questions[i].Resolved /\ Answers(m, Len(msgs), loop.questions[i]))
                  => loop'.questions[i].Resolved
           /\ Len(loop'.questions) =
                Len(loop.questions) + (IF shouldTrackQuestion(m, messageText(m)) THEN 1 ELSE 0)
           /\ shouldTrackQuestion(m, messageText(m)) =>
                /\ loop'.questions[Len(loop'.questions)].Index = Len(msgs)
                /\ loop'.questions[Len(loop'.questions)].Message = m]_vars

\* C20 witness: the third message answered the two questions before it and is
\* a question itself.
C20_Witness ==
  /\ Len(msgs) = 3
  /\ Len(loop.questions) = 3
  /\ loop.questions[1].Resolved /\ loop.questions[2].Resolved
  /\ ~loop.questions[3].Resolved
  /\ loop.questions[3].Index = 2
  /\ Answers(msgs[3], 2, loop.questions[1])
  /\ Answers(msgs[3], 2, loop.questions[2])
  /\ ~Answers(msgs[2], 1, loop.questions[1])

\* The text the pass works on: Content, or Text when Content is empty.
ResolvedText(m) == IF m.Content # <<>> THEN m.Content ELSE m.Text

\* m is flagged as a question, of type 0, 1 or 49, with a text of two code
\* points or more that is not all white space.
Trackable(m) ==
  /\ m.IsQuestion
  /\ m.MsgType \in {0, 1, 49}
  /\ \E i \in 1..Len(ResolvedText(m)) : ~IsSpace(ResolvedText(m)[i])
  /\ Len(ResolvedText(m)) >= 2

\* C21: a step adds one ledger entry, for its message, if the message is
\* trackable, and none otherwise; so the ledger never has more entries than
\* the controversy sub-score has counted question flags, nor than messages.
C21_OpensIffTrackable ==
  [][Len(msgs') = Len(msgs) + 1 =>
       LET m == msgs'[Len(msgs')]
           n == Len(loop.questions)
       IN  /\ Trackable(m) =>
                /\ Len(loop'.questions) = n + 1
                /\ loop'.questions[n + 1].Index = Len(msgs)
                /\ loop'.questions[n + 1].Message = m
           /\ ~Trackable(m) => Len(loop'.questions) = n
           /\ \A i \in 1..n : loop'.questions[i].Index = loop.questions[i].Index
           /\ Len(loop'.questions) <= loop'.analytics.questionMsg
           /\ loop'.analytics.questionMsg <= Len(msgs')]_vars

\* C21 witness: three flagged messages, one entry: the flag counted three
\* times, the ledger once.
C21_Witness ==
  /\ corpus = "ask"
  /\ Len(msgs) = 3
  /\ loop.analytics.questionMsg = 3
  /\ Len(loop.questions) = 1
  /\ loop.questions[1].Message.Content = <<>>
  /\ \E i \in 1..3 : msgs[i].MsgType = 3
  /\ \E i \in 1..3 : Len(msgs[i].Content) = 1

\* The message that resolved entry i of the ledger: the first that answers
\* it.
ResolverOf(i) ==
  CHOOSE k \in 1..Len(msgs) :
    /\ Answers(msgs[k], k - 1, loop.questions[i])
    /\ \A j \in 1..(k - 1) : ~Answers(msgs[j], j - 1, loop.questions[i])

\* The latency of the resolved entry i, in seconds: from the asked-at time to
\* the time of the resolving message, 0 when the asked-at time is unknown.
LatencyOf(i) ==
  IF IsZero(loop.questions[i].AskedAt) THEN 0
  ELSE messageTime(msgs[ResolverOf(i)], tz).sec - loop.questions[i].AskedAt.sec

RECURSIVE SumLatency(_)
SumLatency(S) ==
  IF S = {} THEN 0
  ELSE LET i == CHOOSE i \in S : TRUE IN LatencyOf(i) + SumLatency(S \ {i})

ResolvedEntries == {i \in 1..Len(loop.questions) : loop.questions[i].Resolved}

\* C22: AvgResponseMinutes, in tenths of a minute, is the mean of the positive
\* latencies of the resolved entries rounded to the nearest tenth (halves
\* up), and 0 when there is none; the entries of latency 0 are listed as
\* resolved all the same.
C22_MeanOfPositive ==
  pc = "done" =>
    LET timed == {i \in ResolvedEntries : LatencyOf(i) > 0}
        n == Cardinality(timed)
        total == SumLatency(timed)
        avg == sum.ReplyDebt.AvgResponseMinutes
    IN  /\ Len(sum.ReplyDebt.Resolved) = Cardinality(ResolvedEntries)
        /\ n = 0 => avg = 0
        /\ n > 0 => /\ 12 * n * avg <= 2 * total + 6 * n
                    /\ 2 * total + 6 * n < 12 * n * (avg + 1)

\* C22 witness: two resolved entries, one of latency 0 and one of a positive
\* latency that is not a whole number of tenths of a minute.
C22_Witness ==
  /\ pc = "done"
  /\ Cardinality(ResolvedEntries) = 2
  /\ \E i, j \in ResolvedEntries :
       /\ LatencyOf(i) = 0
       /\ LatencyOf(j) > 0 /\ LatencyOf(j) % 6 # 0
       /\ sum.ReplyDebt.AvgResponseMinutes > 0

\* How many resolved entries were resolved in hour h.
ResolvedIn(h) ==
  Cardinality({i \in ResolvedEntries : loop.questions[i].ResponseHour = h})

RECURSIVE SumResolvedIn(_)
SumResolvedIn(h) == IF h < 0 THEN 0 ELSE ResolvedIn(h) + SumResolvedIn(h - 1)

\* The hour of the message that resolved entry i.
ResolvedHourOf(i) ==
  ((messageTime(msgs[ResolverOf(i)], tz).sec + tz) \div 3600) % 24

\* C23: BestResponseHours holds at most 3 hours of 0..23, no hour twice, by
\* number of resolutions descending and by hour ascending among equals; an
\* hour with resolutions is left out only if three are listed and it does
\* not come before the third; and the counts of all hours add up to the
\* number of resolved entries with a known response hour.
C23_BestHours ==
  pc = "done" =>
    LET best == sum.ReplyDebt.BestResponseHours
        Before2(g, h) ==
          ResolvedIn(g) > ResolvedIn(h) \/ (ResolvedIn(g) = ResolvedIn(h) /\ g < h)
    IN  /\ Len(best) <= 3
        /\ \A p \in 1..Len(best) : best[p] \in 0..23 /\ ResolvedIn(best[p]) > 0
        /\ \A p, q \in 1..Len(best) : p < q => Before2(best[p], best[q])
        /\ \A h \in 0..23 :
             (ResolvedIn(h) > 0 /\ h \notin Range(best)) =>
               Len(best) = 3 /\ Before2(best[3], h)
        /\ \A i \in ResolvedEntries :
             loop.questions[i].ResponseHour = ResolvedHourOf(i)
        /\ SumResolvedIn(23) =
             Cardinality({i \in ResolvedEntries : loop.questions[i].ResponseHour >= 0})

\* C23 witness: one resolution in each of four hours, the first of them in
\* the hour before midnight: the three hours after midnight are listed, in
\* their order, and the hour of the first resolution is left out.
C23_Witness ==
  /\ pc = "done"
  /\ Cardinality({h \in 0..23 : ResolvedIn(h) > 0}) = 4
  /\ ResolvedIn(23) = 1
  /\ loop.questions[1].ResponseHour = 23
  /\ sum.ReplyDebt.BestResponseHours = <<0, 1, 2>>

\* The messages of the input that have a time.
TimedMessages == {k \in 1..Len(msgs) : ~IsZero(messageTime(msgs[k], tz))}

\* The latest time of any message of the input, in Unix seconds.
LatestTime ==
  LET k == CHOOSE k \in TimedMessages :
             \A j \in TimedMessages :
               messageTime(msgs[j], tz).sec <= messageTime(msgs[k], tz).sec
  IN  messageTime(msgs[k], tz).sec

OpenEntries == {i \in 1..Len(loop.questions) : ~loop.questions[i].Resolved}

\* The seconds from the asked-at time of the p-th open entry to the latest
\* message time.
AgeOf(p) == LatestTime - loop.questions[Kth(OpenEntries, p)].AskedAt.sec

TimedOutstanding ==
  {p \in 1..Len(sum.ReplyDebt.Outstanding) :
     ~IsZero(loop.questions[Kth(OpenEntries, p)].AskedAt)}

\* C24, as stated: the AgeMinutes of an outstanding item with a known
\* asked-at time is the latest message time of the input minus the asked-at
\* time, and is not negative.  AgeMinutes is in tenths of a minute, the age
\* in seconds.
C24_AsStated ==
  pc = "done" =>
    /\ Len(sum.ReplyDebt.Outstanding) = Cardinality(OpenEntries)
    /\ \A p \in TimedOutstanding :
         /\ sum.ReplyDebt.Outstanding[p].AgeMinutes >= 0
         /\ 6 * sum.ReplyDebt.Outstanding[p].AgeMinutes = AgeOf(p)

\* C24, amended: the AgeMinutes of an outstanding item with a known asked-at
\* time is the latest message time of the input, whatever the order of the
\* messages, minus the asked-at time, in minutes rounded to one decimal
\* (halves up); it is not negative.
C24_RoundedAge ==
  pc = "done" =>
    /\ Len(sum.ReplyDebt.Outstanding) = Cardinality(OpenEntries)
    /\ \A p \in TimedOutstanding :
         LET a == sum.ReplyDebt.Outstanding[p].AgeMinutes
         IN  /\ a >= 0
             /\ AgeOf(p) >= 0
             /\ 12 * a <= 2 * AgeOf(p) + 6
             /\ 2 * AgeOf(p) + 6 < 12 * (a + 1)

\* C24 witness: the latest message is not the last one, and the age of an
\* outstanding item is not a whole number of tenths of a minute.
C24_Witness ==
  /\ pc = "done"
  /\ Len(msgs) = 3
  /\ ~IsZero(messageTime(msgs[3], tz))
  /\ messageTime(msgs[3], tz).sec < LatestTime
  /\ \E p \in TimedOutstanding :
       /\ AgeOf(p) % 6 # 0
       /\ sum.ReplyDebt.Outstanding[p].AgeMinutes > 0

\* C25: the question text of every item of the reply debt, outstanding or
\* resolved, has at most 120 code points, the ellipsis of a truncated text
\* included.
C25_QuestionAtMost120 ==
  pc = "done" =>
    /\ \A p \in 1..Len(sum.ReplyDebt.Outstanding) :
         Len(sum.ReplyDebt.Outstanding[p].Question) <= 120
    /\ \A p \in 1..Len(sum.ReplyDebt.Resolved) :
         Len(sum.ReplyDebt.Resolved[p].Question) <= 120

\* C26: every resolved item lists exactly one responder, the display name of
\* the sender of the first message that answered the entry, and that is not
\* the questioner; no entry of the ledger ever has more than one responder.
C26_OneResponder ==
  /\ \A i \in 1..Len(loop.questions) :
       Cardinality(DOMAIN loop.questions[i].Responders) <= 1
  /\ pc = "done" =>
       /\ Len(sum.ReplyDebt.Resolved) = Cardinality(ResolvedEntries)
       /\ \A p \in 1..Len(sum.ReplyDebt.Resolved) :
            LET i == Kth(ResolvedEntries, p)
                item == sum.ReplyDebt.Resolved[p]
            IN  /\ item.Responders = <<senderDisplay(msgs[ResolverOf(i)])>>
                /\ item.Responders[1] # item.Questioner
                /\ normalizeName(item.Responders[1]) # normalizeName(item.Questioner)

\* C26 witness: after the message that resolved an entry, a message of
\* another sender answers the same entry, and the item lists the first
\* alone.
C26_Witness ==
  /\ pc = "done"
  /\ \E p \in 1..Len(sum.ReplyDebt.Resolved) : \E k \in 1..Len(msgs) :
       LET i == Kth(ResolvedEntries, p)
       IN  /\ k > ResolverOf(i)
           /\ Answers(msgs[k], k - 1, loop.questions[i])
           /\ senderDisplay(msgs[k]) # senderDisplay(msgs[ResolverOf(i)])
           /\ Len(sum.ReplyDebt.Resolved[p].Responders) = 1

\* The sender of m has no identity: its display name is empty or made of
\* characters that normalizeName strips.
Nameless(m) == normalizeName(senderDisplay(m)) = <<>>

NamelessEntries == {i \in 1..Len(loop.questions) : Nameless(loop.questions[i].Message)}

\* C27: an entry whose questioner has no identity is never resolved, and is
\* reported in Outstanding; a message whose sender has no identity resolves
\* no entry.
C27_NamelessNeverResolves ==
  [][/\ \A i \in 1..Len(loop'.questions) :
          Nameless(loop'.questions[i].Message) => ~loop'.questions[i].Resolved
     /\ (Len(msgs') = Len(msgs) + 1 /\ Nameless(msgs'[Len(msgs')])) =>
          \A i \in 1..Len(loop.questions) :
            loop'.questions[i].Resolved = loop.questions[i].Resolved
     /\ pc' = "done" =>
          Cardinality({p \in 1..Len(sum'.ReplyDebt.Outstanding) :
                         normalizeName(sum'.ReplyDebt.Outstanding[p].Questioner) = <<>>})
            = Cardinality(NamelessEntries)]_vars

\* C27 witness: Alice and "!!" asked the same question; a later message
\* quotes it and resolves Alice's entry alone.
C27_Witness ==
  /\ pc = "done"
  /\ \E i \in NamelessEntries : \E j \in ResolvedEntries :
       LET k == ResolverOf(j)
       IN  /\ loop.questions[i].Message.Content = loop.questions[j].Message.Content
           /\ k - 1 > loop.questions[i].Index
           /\ msgs[k].Reference.present
           /\ msgs[k].Reference.SenderName = <<>>
           /\ Contains(loop.questions[i].Message.Content, msgs[k].Reference.Content)
           /\ ~IsZero(loop.questions[i].AskedAt)
           /\ ~loop.questions[i].Resolved

\* C28: a step raises a slot of the histogram exactly if messageTime gives
\* its message a time, and then it is the slot of the hour of that time that
\* is raised, by one.
C28_HistogramFollowsMessageTime ==
  [][Len(msgs') = Len(msgs) + 1 =>
       LET t == messageTime(msgs'[Len(msgs')], tz)
           raised == {h \in 0..23 : loop'.HourlyHistogram[h] # loop.HourlyHistogram[h]}
       IN  /\ IsZero(t) => raised = {}
           /\ ~IsZero(t) =>
                /\ raised = {Hour(t)}
                /\ loop'.HourlyHistogram[Hour(t)] = loop.HourlyHistogram[Hour(t)] + 1]_vars

\* C29: links are counted at most once per message, so no link's count
\* exceeds the number of messages processed, also when a message shares the
\* very link its text holds.
C29_AtMostOncePerMessage ==
  \A u \in DOMAIN loop.linkCount : loop.linkCount[u] <= Len(msgs)

\* The text s holds a slash, or two dots in a row.
LeavesDirectory(s) ==
  \/ 47 \in Range(s)
  \/ \E i \in 1..(Len(s) - 1) : s[i] = 46 /\ s[i + 1] = 46

\* C30: whatever the path and the query of a request, every name the server
\* opens in the data directory is a date that parses as YYYY-MM-DD followed
\* by ".json": ten characters of digits and dashes, no slash and no "..", so
\* the file is in the data directory itself; and a request other than a GET
\* of the chatlog route opens nothing.
C30_OpensOnlyDatedFile ==
  /\ \A n \in api.opened :
       /\ Len(n) = 10 + Len(JsonSuffix)
       /\ parsesAsDate(SubSeq(n, 1, 10))
       /\ SubSeq(n, 11, Len(n)) = JsonSuffix
       /\ ~LeavesDirectory(n)
  /\ Cardinality(api.opened) <= 1
  /\ api.opened # {} =>
       api.served /\ api.req.Method = "GET" /\ route(api.req.Path) = "chatlog"

\* C30 witness: a GET of the chatlog route whose date parameter is "../x"
\* has been answered 400 with no file opened.
C30_Witness ==
  /\ api.served
  /\ api.req.Method = "GET"
  /\ api.req.Path = ChatlogsRoute
  /\ api.req.Date = <<46, 46, 47, 120>>
  /\ LeavesDirectory(api.req.Date)
  /\ StatusOf(api.w) = 400
  /\ api.opened = {}

====
